---- MODULE Spec2Model ----
(***************************************************************************)
(* Model of the crawl-and-enrich pipeline of the AKRS equipment scrapers.  *)
(*                                                                         *)
(*   scrapeEquipment          src/scrape-all-equipment.js                  *)
(*   scrapeProducts           src/unnamed/part_000 (same code as           *)
(*                            scrapeEquipment up to logging and the place  *)
(*                            maxPages comes from)                         *)
(*   scrapeInventoryListings  src/scrape-tractor-house.js                  *)
(*                                                                         *)
(* A behaviour of Spec is one call of one of the crawl functions.          *)
(* JavaScript runs every piece of code between two awaits atomically, so   *)
(* an action is one such piece: the continuation that runs when a request  *)
(* settles or a timer fires, up to the next await.                         *)
(***************************************************************************)
EXTENDS Integers, Sequences, FiniteSets, TLC

(***************************************************************************)
(* Bounds.  The source's numbers are productsPerPage = 12, BATCH_SIZE = 10,*)
(* maxPages = 50 / 80 and, for Tractor House, 28 listings per page with a  *)
(* short-page threshold of 20.  The model keeps their order relations      *)
(* (BATCH_SIZE < productsPerPage, so that a full page takes two windows;   *)
(* threshold < listings per page) at sizes TLC can enumerate.              *)
(***************************************************************************)
productsPerPage == 3
BATCH_SIZE == 2
maxPages == 2
minFullPage == 2
MaxDetailFaults == 1
MaxRows == 3

listingsPerPage == minFullPage + 1

\* scrapeProducts is scrapeEquipment with maxPages a local constant instead of
\* a parameter, so the model's scrapeEquipment stands for both.
Crawlers == {"scrapeEquipment", "scrapeInventoryListings"}

IsTractorHouse(c) == c = "scrapeInventoryListings"

VARIABLES
    crawler,        \* which crawl function this behaviour is a call of
    pc,             \* where the crawl function is suspended
    pageNum,        \* let pageNum
    hasMorePages,   \* let hasMorePages
    products,       \* const products = [] (Tractor House: listings)
    pageProducts,   \* const pageProducts = [] of the page being enriched
    i,              \* processBatch: the loop variable i
    results,        \* processBatch: const results = []
    inflight,       \* requests issued and not yet settled
    browser,        \* Tractor House: let browser
    log,            \* kinds of console messages written so far
    outcome,        \* "running", "returned" or "raised"
    returned,       \* the value the crawl function returned
    failure,        \* the failure that ended the crawl, "none" if none
    listingRequests,\* history: number of listing-page requests issued
    pagesSeen,      \* history: the listing pages that arrived
    detailLog,      \* history: how each detail fetch of this page settled
    faults,         \* history: number of detail fetches without a full page
    fetchResponse,  \* SpecDetail: the response a detail fetch receives
    fetchResult,    \* SpecDetail: what scrapeProductDetails made of it
    input,          \* the arguments of a call of one of the pure functions
    output          \* what the function returned, NoOutput before the call

vars == <<crawler, pc, pageNum, hasMorePages, products, pageProducts, i,
          results, inflight, browser, log, outcome, returned, failure,
          listingRequests, pagesSeen, detailLog, faults, fetchResponse,
          fetchResult, input, output>>

crawlVars == <<crawler, pc, pageNum, hasMorePages, products, pageProducts, i,
               results, inflight, browser, log, outcome, returned, failure,
               listingRequests, pagesSeen, detailLog, faults>>

Min(a, b) == IF a < b THEN a ELSE b

(***************************************************************************)
(* The detail fetcher.                                                     *)
(*                                                                         *)
(* A response is a failure of axios.get (it rejects on a network error, on *)
(* its timeout and on a status outside 2xx) or a page, which the parser    *)
(* sees as its sequence of .product-information-row elements, each a label *)
(* and a value.                                                            *)
(***************************************************************************)
FailureKinds == {"network", "timeout", "status"}

Labels == {"location", "hours", "meter (hrs)", "stock"}

Values == {"GRETNA", "120"}

Row == [label : Labels, value : Values]

\* label.includes('location')
IsLocationLabel(label) == label = "location"

\* label.includes('hour') || label.includes('hrs')
IsHoursLabel(label) == label \in {"hours", "meter (hrs)"}

\* The body of the .each callback: one row's effect on {location, hours}.
ReadRow(acc, row) ==
    IF IsLocationLabel(row.label) THEN [acc EXCEPT !.location = row.value]
    ELSE IF IsHoursLabel(row.label) THEN [acc EXCEPT !.hours = row.value]
    ELSE acc

RECURSIVE ReadRows(_, _)
ReadRows(acc, rows) ==
    IF rows = <<>> THEN acc
    ELSE ReadRows(ReadRow(acc, Head(rows)), Tail(rows))

\* A completion of scrapeProductDetails: a returned {location, hours}, or an
\* exception thrown to the caller.
Returns(details) ==
    [type |-> "return", location |-> details.location, hours |-> details.hours]

Throws == [type |-> "throw", location |-> "", hours |-> ""]

\* Mutant of DetailCatch: the error is thrown on instead of swallowed.
DetailCatchRethrows == Throws

\* The catch block of scrapeProductDetails.
DetailCatch == Returns([location |-> "", hours |-> ""])

\* Mutant of scrapeProductDetails: no try/catch around the request.
scrapeProductDetailsNoCatch(response) ==
    IF response.kind = "page"
    THEN Returns(ReadRows([location |-> "", hours |-> ""], response.rows))
    ELSE Throws

\* scrapeProductDetails, as a function of the response to its one request.
scrapeProductDetails(response) ==
    IF response.kind = "page"
    THEN Returns(ReadRows([location |-> "", hours |-> ""], response.rows))
    ELSE DetailCatch

RowSeqs(n) == UNION {[1..k -> Row] : k \in 0..n}

Responses ==
    {[kind |-> k, rows |-> <<>>] : k \in FailureKinds}
        \cup {[kind |-> "page", rows |-> rs] : rs \in RowSeqs(MaxRows)}

\* What detailLog keeps of a response: whether the request failed.
DetailKind(response) == IF response.kind = "page" THEN "page" ELSE "failed"

\* The responses the crawl model draws from: a page with both rows, a page
\* without information rows, and each failure.  (SpecDetail covers every
\* page of up to MaxRows rows.)
FullPage ==
    [kind |-> "page",
     rows |-> <<[label |-> "location", value |-> "GRETNA"],
                [label |-> "hours", value |-> "120"]>>]

CrawlResponses ==
    {FullPage, [kind |-> "page", rows |-> <<>>]}
        \cup {[kind |-> k, rows |-> <<>>] : k \in FailureKinds}

(***************************************************************************)
(* Records and requests.                                                   *)
(***************************************************************************)
\* The product object built from tile j of listing page n.  page and idx
\* stand for the tile's own fields (name, url, ...), which identify it.
Tile(n, j) == [page |-> n, idx |-> j, location |-> "", hours |-> ""]

\* productTiles.each(...): pageProducts in tile order.
Tiles(n, T) == [j \in 1..T |-> Tile(n, j)]

ListingRequest(n) == [kind |-> "listing", page |-> n, idx |-> 0]

\* Mutant of DetailRequest: every callback fetches for the first item.
DetailRequestOfFirstItem(n, j) == [kind |-> "detail", page |-> n, idx |-> 1]

DetailRequest(n, j) == [kind |-> "detail", page |-> n, idx |-> j]

ListingsInFlight == {r \in inflight : r.kind = "listing"}

DetailsInFlight == {r \in inflight : r.kind = "detail"}

(***************************************************************************)
(* processBatch                                                            *)
(***************************************************************************)
\* Mutant of Slice: the window takes one item too many.
SliceOneTooMany(n, i0, size) == {j \in 1..n : i0 < j /\ j <= i0 + size + 1}

\* items.slice(i0, i0 + size), as the set of (1-based) positions it takes
\* from an array of n items.
Slice(n, i0, size) == {j \in 1..n : i0 < j /\ j <= i0 + size}

\* The window processBatch is working on.
Batch == Slice(Len(pageProducts), i, BATCH_SIZE)

\* Mutant of WindowRequests: the window is items.slice(0, i0 + size).
WindowRequestsFromStart(items, i0) ==
    {DetailRequest(items[j].page, j) : j \in Slice(Len(items), 0, i0 + BATCH_SIZE)}

\* batch.map(processFn): every callback of the window runs up to its await
\* of axios.get, so all the window's detail requests are issued at once.
WindowRequests(items, i0) ==
    {DetailRequest(items[j].page, j) : j \in Slice(Len(items), i0, BATCH_SIZE)}

\* Mutant of AllSettled: Promise.all never resolves.
AllSettledNever == FALSE

\* Mutant of AllSettled: the window's promises are not awaited.
AllSettledNotAwaited == TRUE

\* await Promise.all(...) resumes when every promise of the window settled.
AllSettled == DetailsInFlight = {}

\* Mutant of BatchResults: the values in the order the callbacks finished.
BatchResultsByCompletion ==
    SubSeq(products, Len(products) - Cardinality(Batch) + 1, Len(products))

\* The value of Promise.all: the callbacks' return values by position in
\* the batch.  A callback returns its product object.
BatchResults ==
    [k \in 1..Cardinality(Batch) |-> pageProducts[i + k]]

\* Mutant of MoreWindows: the delay is taken after every window.
MoreWindowsAlways == TRUE

\* if (i + batchSize < items.length) await delay(500)
MoreWindows == i + BATCH_SIZE < Len(pageProducts)

(***************************************************************************)
(* Pagination                                                              *)
(***************************************************************************)
\* Mutant of LoopCondition: the test of the crawl that counts from 1, used by
\* the crawls that count from 0.
LoopConditionOffByOne == hasMorePages /\ pageNum <= maxPages

\* The while conditions: pageNum counts from 0 in scrapeEquipment and
\* scrapeProducts, from 1 in scrapeInventoryListings.
LoopCondition ==
    IF IsTractorHouse(crawler)
    THEN hasMorePages /\ pageNum <= maxPages
    ELSE hasMorePages /\ pageNum < maxPages

\* Mutant of FullPageOfTiles: every page counts as full.
FullPageOfTilesAlways(T) == TRUE

\* if (productTiles.length >= productsPerPage)
FullPageOfTiles(T) == T >= productsPerPage

\* if (!hasNextPage || count < 20): the Tractor House crawl ends here.
LastListingPage(hasNextPage, count) == ~hasNextPage \/ count < minFullPage

\* Only add if we have meaningful data: the kept items, in page order.
KeptListings(n, count, kept) ==
    SelectSeq(Tiles(n, count), LAMBDA r : r.idx \in kept)

\* Mutant of CrawlCatch: the error is thrown on to the caller.
CrawlCatchRethrows == [outcome |-> "raised", value |-> <<>>]

\* The catch block of the crawl: what the caller gets after an error.
CrawlCatch == [outcome |-> "returned", value |-> products]

(***************************************************************************)
(* Initial state: a crawl function has just been called.                   *)
(***************************************************************************)
NoResponse == [kind |-> "none", rows |-> <<>>]

NoResult == [type |-> "none", location |-> "", hours |-> ""]

NoInput == [fn |-> "none"]

NoOutput == [fn |-> "none"]

Init ==
    /\ crawler \in Crawlers
    /\ pc = IF IsTractorHouse(crawler) THEN "launch" ELSE "loop"
    /\ pageNum = IF IsTractorHouse(crawler) THEN 1 ELSE 0
    /\ hasMorePages = TRUE
    /\ products = <<>>
    /\ pageProducts = <<>>
    /\ i = 0
    /\ results = <<>>
    /\ inflight = {}
    /\ browser = "null"
    /\ log = {}
    /\ outcome = "running"
    /\ returned = <<>>
    /\ failure = "none"
    /\ listingRequests = 0
    /\ pagesSeen = <<>>
    /\ detailLog = <<>>
    /\ faults = 0
    /\ fetchResponse = NoResponse
    /\ fetchResult = NoResult
    /\ input = NoInput
    /\ output = NoOutput

\* The variables of processBatch and of the page being enriched.
pageVars == <<pageProducts, i, results, detailLog>>

\* The variables of the calls of the pure functions.
callVars == <<input, output>>

\* The variables no crawl action changes.
fetchVars == <<fetchResponse, fetchResult, callVars>>

(***************************************************************************)
(* How a crawl function ends.                                              *)
(***************************************************************************)
\* Mutant of ReturnProducts: a new, empty array is returned.
ReturnProductsEmptied(messages) ==
    /\ log' = log \cup messages \cup {"total"}
    /\ outcome' = "returned"
    /\ returned' = <<>>
    /\ pc' = "done"

\* scrapeEquipment / scrapeProducts leave the loop: log the total, return.
ReturnProducts(messages) ==
    /\ log' = log \cup messages \cup {"total"}
    /\ outcome' = "returned"
    /\ returned' = products
    /\ pc' = "done"

\* scrapeEquipment / scrapeProducts: the catch block.
CatchAndReturn ==
    /\ log' = log \cup {"error"}
    /\ outcome' = CrawlCatch.outcome
    /\ returned' = CrawlCatch.value
    /\ pc' = "done"

(***************************************************************************)
(* scrapeEquipment and scrapeProducts                                      *)
(***************************************************************************)
\* while (hasMorePages && pageNum < maxPages): await axios.get(url)
RequestListing ==
    /\ pc = "loop"
    /\ ~IsTractorHouse(crawler)
    /\ LoopCondition
    /\ inflight' = inflight \cup {ListingRequest(pageNum)}
    /\ listingRequests' = listingRequests + 1
    /\ pc' = "listing"
    /\ UNCHANGED <<crawler, pageNum, hasMorePages, products, pageVars, browser,
                   log, outcome, returned, failure, pagesSeen, faults,
                   fetchVars>>

\* The while condition is false: the code after the loop runs.
LoopExit ==
    /\ pc = "loop"
    /\ ~IsTractorHouse(crawler)
    /\ ~LoopCondition
    /\ ReturnProducts({})
    /\ UNCHANGED <<crawler, pageNum, hasMorePages, products, pageVars,
                   inflight, browser, failure, listingRequests, pagesSeen,
                   faults, fetchVars>>

\* axios.get rejects (network error, timeout, status outside 2xx), or, on the
\* first page, the debug copy of the page cannot be written.
ListingFails(kind) ==
    /\ pc = "listing"
    /\ ~IsTractorHouse(crawler)
    /\ kind = "debugWrite" => pageNum = 0
    /\ inflight' = inflight \ ListingsInFlight
    /\ failure' = kind
    /\ CatchAndReturn
    /\ UNCHANGED <<crawler, pageNum, hasMorePages, products, pageVars, browser,
                   listingRequests, pagesSeen, faults, fetchVars>>

\* The listing page arrives with T tiles.  With no tile the crawl ends;
\* otherwise pageProducts is built and processBatch starts its first window.
ListingArrives(T) ==
    /\ pc = "listing"
    /\ ~IsTractorHouse(crawler)
    /\ pagesSeen' = Append(pagesSeen,
                           [page |-> pageNum, count |-> T, kept |-> 1..T])
    /\ IF T = 0
       THEN /\ hasMorePages' = FALSE
            /\ inflight' = inflight \ ListingsInFlight
            /\ ReturnProducts({"noProducts"})
            /\ UNCHANGED pageVars
       ELSE /\ pageProducts' = Tiles(pageNum, T)
            /\ i' = 0
            /\ results' = <<>>
            /\ detailLog' = [j \in 1..T |-> "pending"]
            /\ inflight' = (inflight \ ListingsInFlight)
                               \cup WindowRequests(Tiles(pageNum, T), 0)
            /\ pc' = "window"
            /\ UNCHANGED <<hasMorePages, log, outcome, returned>>
    /\ UNCHANGED <<crawler, pageNum, products, browser, failure,
                   listingRequests, faults, fetchVars>>

\* The detail request r settles with the given response: scrapeProductDetails
\* returns and the callback of processBatch runs to its end, enriching its
\* product and pushing it onto products.  (processedCount only numbers the
\* log lines and is left out.)
DetailSettles(r, response) ==
    /\ r \in DetailsInFlight
    /\ response # FullPage => faults < MaxDetailFaults
    /\ faults' = IF response = FullPage THEN faults ELSE faults + 1
    /\ inflight' = inflight \ {r}
    /\ LET details == scrapeProductDetails(response)
           product == [Tile(r.page, r.idx) EXCEPT
                          !.location = details.location,
                          !.hours = details.hours]
           current == /\ r.idx <= Len(pageProducts)
                      /\ pageProducts[r.idx].page = r.page
       IN  IF details.type = "return"
           THEN /\ pageProducts' = IF current
                                   THEN [pageProducts EXCEPT ![r.idx] = product]
                                   ELSE pageProducts
                /\ detailLog' = IF current
                                THEN [detailLog EXCEPT ![r.idx] = DetailKind(response)]
                                ELSE detailLog
                /\ products' = Append(products, product)
                /\ UNCHANGED <<pc, log, outcome, returned, failure>>
           ELSE \* the callback rejects, so do Promise.all and processBatch,
                \* and the crawl's catch block runs
                /\ failure' = "detail"
                /\ CatchAndReturn
                /\ UNCHANGED <<pageProducts, detailLog, products>>
    /\ UNCHANGED <<crawler, pageNum, hasMorePages, i, results, browser,
                   listingRequests, pagesSeen, fetchVars>>

\* Promise.all resolves: results.push(...batchResults); then either the
\* delay between windows starts or processBatch returns.
WindowSettles ==
    /\ pc = "window"
    /\ AllSettled
    /\ results' = results \o BatchResults
    /\ IF MoreWindows
       THEN pc' = "batchDelay" /\ i' = i
       ELSE pc' = "afterBatch" /\ i' = i + BATCH_SIZE
    /\ UNCHANGED <<crawler, pageNum, hasMorePages, products, pageProducts,
                   inflight, browser, log, outcome, returned, failure,
                   listingRequests, pagesSeen, detailLog, faults, fetchVars>>

\* delay(500) is over: i += batchSize and the next window starts.
BatchDelayEnds ==
    /\ pc = "batchDelay"
    /\ i' = i + BATCH_SIZE
    /\ inflight' = inflight \cup WindowRequests(pageProducts, i + BATCH_SIZE)
    /\ pc' = "window"
    /\ UNCHANGED <<crawler, pageNum, hasMorePages, products, pageProducts,
                   results, browser, log, outcome, returned, failure,
                   listingRequests, pagesSeen, detailLog, faults, fetchVars>>

\* processBatch has returned: a full page leads to the delay before the next
\* page, a short page ends the crawl at the next loop test.
PageComplete ==
    /\ pc = "afterBatch"
    /\ IF FullPageOfTiles(Len(pageProducts))
       THEN /\ pageNum' = pageNum + 1
            /\ pc' = "pageDelay"
            /\ UNCHANGED <<hasMorePages, log>>
       ELSE /\ hasMorePages' = FALSE
            /\ log' = log \cup {"shortPage"}
            /\ pc' = "loop"
            /\ UNCHANGED pageNum
    /\ UNCHANGED <<crawler, products, pageVars, inflight, browser, outcome,
                   returned, failure, listingRequests, pagesSeen, faults,
                   fetchVars>>

\* delay(2000) (Tractor House: delay(3000)) is over: back to the loop test.
PageDelayEnds ==
    /\ pc = "pageDelay"
    /\ pc' = "loop"
    /\ UNCHANGED <<crawler, pageNum, hasMorePages, products, pageVars,
                   inflight, browser, log, outcome, returned, failure,
                   listingRequests, pagesSeen, faults, fetchVars>>

(***************************************************************************)
(* scrapeInventoryListings (Tractor House)                                 *)
(***************************************************************************)
\* puppeteer.launch, then newPage / setViewport / setUserAgent /
\* setExtraHTTPHeaders.  If launch rejects, browser is still null and the
\* finally block closes nothing; if the set-up rejects, the browser is open.
LaunchBrowser(result) ==
    /\ pc = "launch"
    /\ CASE result = "ok" ->
              /\ browser' = "open"
              /\ pc' = "loop"
              /\ UNCHANGED <<log, outcome, returned, failure>>
         [] result = "setup" ->
              /\ browser' = "open"
              /\ log' = log \cup {"error"}
              /\ failure' = "setup"
              /\ pc' = "closing"
              /\ UNCHANGED <<outcome, returned>>
         [] result = "launch" ->
              /\ browser' = "null"
              /\ log' = log \cup {"error"}
              /\ failure' = "launch"
              /\ outcome' = "returned"
              /\ returned' = products
              /\ pc' = "done"
    /\ UNCHANGED <<crawler, pageNum, hasMorePages, products, pageVars,
                   inflight, listingRequests, pagesSeen, faults, fetchVars>>

\* while (hasMorePages && pageNum <= maxPages): await page.goto(currentUrl)
Navigate ==
    /\ pc = "loop"
    /\ IsTractorHouse(crawler)
    /\ LoopCondition
    /\ inflight' = inflight \cup {ListingRequest(pageNum)}
    /\ listingRequests' = listingRequests + 1
    /\ pc' = "listing"
    /\ UNCHANGED <<crawler, pageNum, hasMorePages, products, pageVars, browser,
                   log, outcome, returned, failure, pagesSeen, faults,
                   fetchVars>>

\* The while condition is false: log the total, then the finally block.
ListingsLoopExit ==
    /\ pc = "loop"
    /\ IsTractorHouse(crawler)
    /\ ~LoopCondition
    /\ log' = log \cup {"total"}
    /\ pc' = "closing"
    /\ UNCHANGED <<crawler, pageNum, hasMorePages, products, pageVars,
                   inflight, browser, outcome, returned, failure,
                   listingRequests, pagesSeen, faults, fetchVars>>

\* page.goto rejects (network error or its 60 s timeout): catch, then finally.
NavigationFails(kind) ==
    /\ pc = "listing"
    /\ IsTractorHouse(crawler)
    /\ inflight' = inflight \ ListingsInFlight
    /\ failure' = kind
    /\ log' = log \cup {"error"}
    /\ pc' = "closing"
    /\ UNCHANGED <<crawler, pageNum, hasMorePages, products, pageVars, browser,
                   outcome, returned, listingRequests, pagesSeen, faults,
                   fetchVars>>

\* page.goto resolves and the page is read: count cards are found, of which
\* those in kept have a title, model or make.  fault says what goes wrong
\* while reading: "status" is an error page (page.goto resolves on any status
\* and such a page has no cards), "extract" a rejected $$eval of the cards,
\* "nextCheck" a rejected evaluate of the next-page test.
ListingsArrive(count, kept, hasNextPage, fault) ==
    /\ pc = "listing"
    /\ IsTractorHouse(crawler)
    /\ fault = "status" => count = 0
    /\ fault \in {"extract", "nextCheck"} => count > 0
    /\ inflight' = inflight \ ListingsInFlight
    /\ pagesSeen' =
           Append(pagesSeen,
                  [page |-> pageNum, count |-> count,
                   kept |-> IF fault = "extract" THEN {} ELSE kept])
    /\ failure' = IF fault = "none" THEN failure ELSE fault
    /\ IF count = 0
       THEN /\ hasMorePages' = FALSE
            /\ log' = log \cup {"noListings", "total"}
            /\ pc' = "closing"
            /\ UNCHANGED <<products, pageNum>>
       ELSE IF fault = "extract"
       THEN /\ log' = log \cup {"error"}
            /\ pc' = "closing"
            /\ UNCHANGED <<products, pageNum, hasMorePages>>
       ELSE /\ products' = products \o KeptListings(pageNum, count, kept)
            /\ IF fault = "nextCheck"
               THEN /\ log' = log \cup {"error"}
                    /\ pc' = "closing"
                    /\ UNCHANGED <<pageNum, hasMorePages>>
               ELSE IF LastListingPage(hasNextPage, count)
               THEN /\ hasMorePages' = FALSE
                    /\ log' = log \cup {"noMorePages"}
                    /\ pc' = "loop"
                    /\ UNCHANGED pageNum
               ELSE /\ pageNum' = pageNum + 1
                    /\ pc' = "pageDelay"
                    /\ UNCHANGED <<hasMorePages, log>>
    /\ UNCHANGED <<crawler, pageVars, browser, outcome, returned,
                   listingRequests, faults, fetchVars>>

\* Mutant of CloseBrowser: no finally block, the function just returns.
ReturnWithoutClosing ==
    /\ pc = "closing"
    /\ outcome' = "returned"
    /\ returned' = products
    /\ pc' = "done"
    /\ UNCHANGED <<crawler, pageNum, hasMorePages, products, pageVars,
                   inflight, browser, log, failure, listingRequests,
                   pagesSeen, faults, fetchVars>>

\* finally { if (browser) await browser.close() }  return listings
\* browser.close() is taken to resolve: puppeteer kills the browser process
\* when the close command fails.
CloseBrowser ==
    /\ pc = "closing"
    /\ browser' = "closed"
    /\ outcome' = "returned"
    /\ returned' = products
    /\ pc' = "done"
    /\ UNCHANGED <<crawler, pageNum, hasMorePages, products, pageVars,
                   inflight, log, failure, listingRequests, pagesSeen, faults,
                   fetchVars>>

(***************************************************************************)
(* The crawl specification                                                 *)
(***************************************************************************)
Next ==
    \/ RequestListing
    \/ LoopExit
    \/ \E kind \in FailureKinds \cup {"debugWrite"} : ListingFails(kind)
    \/ \E T \in 0..productsPerPage : ListingArrives(T)
    \/ \E r \in inflight, response \in CrawlResponses :
           DetailSettles(r, response)
    \/ WindowSettles
    \/ BatchDelayEnds
    \/ PageComplete
    \/ PageDelayEnds
    \/ \E result \in {"ok", "setup", "launch"} : LaunchBrowser(result)
    \/ Navigate
    \/ ListingsLoopExit
    \/ \E kind \in {"network", "timeout"} : NavigationFails(kind)
    \/ \E count \in 0..listingsPerPage, hasNextPage \in BOOLEAN,
          fault \in {"none", "status", "extract", "nextCheck"} :
           \E kept \in SUBSET (1..count) :
               ListingsArrive(count, kept, hasNextPage, fault)
    \/ CloseBrowser

Spec == Init /\ [][Next]_vars

(***************************************************************************)
(* The detail fetcher on its own: one call of scrapeProductDetails for     *)
(* every response up to MaxRows information rows.                          *)
(***************************************************************************)
InitDetail ==
    /\ crawler = "scrapeEquipment"
    /\ pc = "detail"
    /\ pageNum = 0
    /\ hasMorePages = TRUE
    /\ products = <<>>
    /\ pageProducts = <<>>
    /\ i = 0
    /\ results = <<>>
    /\ inflight = {}
    /\ browser = "null"
    /\ log = {}
    /\ outcome = "running"
    /\ returned = <<>>
    /\ failure = "none"
    /\ listingRequests = 0
    /\ pagesSeen = <<>>
    /\ detailLog = <<>>
    /\ faults = 0
    /\ fetchResponse \in Responses
    /\ fetchResult = NoResult
    /\ input = NoInput
    /\ output = NoOutput

FetchDetails ==
    /\ pc = "detail"
    /\ fetchResult = NoResult
    /\ fetchResult' = scrapeProductDetails(fetchResponse)
    /\ UNCHANGED <<crawlVars, fetchResponse, callVars>>

NextDetail == FetchDetails

SpecDetail == InitDetail /\ [][NextDetail]_vars

(***************************************************************************)
(* Properties                                                              *)
(***************************************************************************)
IsEquipmentCrawl == ~IsTractorHouse(crawler)

\* The tiles of the arrived listing pages that the crawl was to keep.
ExpectedTiles ==
    UNION {{<<pagesSeen[n].page, j>> : j \in pagesSeen[n].kept} :
               n \in 1..Len(pagesSeen)}

\* The positions of a sequence of records that hold tile j of page n.
PositionsOf(records, n, j) ==
    {k \in 1..Len(records) : records[k].page = n /\ records[k].idx = j}

\* records holds exactly one record for every expected tile, and no other.
HoldsEachTileOnce(records) ==
    /\ \A t \in ExpectedTiles : Cardinality(PositionsOf(records, t[1], t[2])) = 1
    /\ \A k \in 1..Len(records) :
           <<records[k].page, records[k].idx>> \in ExpectedTiles

\* C1: when processBatch returns, its result has the length of its input
\* and position k holds the product the callback made of input item k,
\* whatever the order in which the detail fetches of a window settled.
C1_ResultsAlignedWithItems ==
    pc = "afterBatch" =>
        /\ Len(results) = Len(pageProducts)
        /\ \A k \in 1..Len(results) :
               /\ results[k].page = pageNum
               /\ results[k].idx = k
               /\ results[k] = pageProducts[k]
               /\ detailLog[k] # "pending"

\* The records of the page just enriched, in the order they were pushed.
PushedThisPage ==
    SelectSeq(products, LAMBDA r : r.page = pageNum)

\* C1 witness: processBatch returns for a full page whose detail fetches
\* settled in another order than the input's.
C1_Witness_OutOfOrderCompletion ==
    /\ pc = "afterBatch"
    /\ Len(results) = productsPerPage
    /\ \E k \in 1..Len(PushedThisPage) : PushedThisPage[k].idx # k

\* C2: whatever detail fetches fail, every item of the page yields one result
\* and one record in products, a failed one with empty location and hours,
\* its siblings fetched and enriched from their own pages; and the crawl's
\* output holds one record for every tile of every page that arrived.
C2_FailureKeepsEveryRecord ==
    /\ (IsEquipmentCrawl /\ pc = "afterBatch") =>
           /\ Len(results) = Len(pageProducts)
           /\ \A k \in 1..Len(pageProducts) :
                  /\ Cardinality(PositionsOf(products, pageNum, k)) = 1
                  /\ detailLog[k] \in {"page", "failed"}
                  /\ \A m \in PositionsOf(products, pageNum, k) :
                         products[m] = pageProducts[k]
                  /\ detailLog[k] = "failed" =>
                         /\ pageProducts[k].location = ""
                         /\ pageProducts[k].hours = ""
    /\ (IsEquipmentCrawl /\ pc = "done") =>
           /\ outcome = "returned"
           /\ HoldsEachTileOnce(returned)

\* C2 witness: a window in which one detail fetch failed and a sibling's
\* succeeded has settled.
C2_Witness_FailureBesideSuccess ==
    /\ pc = "afterBatch"
    /\ \E k1, k2 \in 1..Min(BATCH_SIZE, Len(pageProducts)) :
           /\ detailLog[k1] = "failed"
           /\ detailLog[k2] = "page"
           /\ pageProducts[k2].location = "GRETNA"

\* The nominal page size of the crawl: productsPerPage, or the 28 listings
\* per page of the Tractor House site.
PageSize == IF IsTractorHouse(crawler) THEN listingsPerPage ELSE productsPerPage

\* No listing page was requested after the n-th one that arrived.
NoRequestAfter(n) == listingRequests = n

\* C3, as claimed: in every crawler, a listing page with fewer tiles than the
\* page size is the last one requested.
C3_ShortPageEndsEveryCrawl ==
    \A n \in 1..Len(pagesSeen) :
        pagesSeen[n].count < PageSize => NoRequestAfter(n)

\* The failures of a listing-page request.
ListingFailures == {"network", "timeout", "status"}

\* C4: a crawl never raises, and a crawl ended by a failed listing request
\* on page N has returned exactly the records of the pages before N, with
\* no detail fetch left unsettled.
C4_ListingFailureReturnsGathered ==
    /\ outcome # "raised"
    /\ (pc = "done" /\ failure \in ListingFailures) =>
           /\ outcome = "returned"
           /\ returned = products
           /\ HoldsEachTileOnce(returned)
           /\ \A k \in 1..Len(returned) : returned[k].page < pageNum
           /\ inflight = {}

\* C4 witness: a listing request timed out after at least one full page.
C4_Witness_FailureAfterFirstPage ==
    /\ pc = "done"
    /\ failure = "timeout"
    /\ IsEquipmentCrawl
    /\ Len(returned) >= productsPerPage

HasRow(response, IsLabel(_)) ==
    \E k \in 1..Len(response.rows) : IsLabel(response.rows[k].label)

\* C5 (SpecDetail): scrapeProductDetails returns for every response, never
\* throws, and a field the response does not supply is the empty string: both
\* fields after a failure, location without a location row, hours without an
\* hours row.
C5_DetailFetcherFailsSoft ==
    fetchResult # NoResult =>
        /\ fetchResult.type = "return"
        /\ fetchResponse.kind \in FailureKinds =>
               fetchResult.location = "" /\ fetchResult.hours = ""
        /\ ~HasRow(fetchResponse, IsLocationLabel) => fetchResult.location = ""
        /\ ~HasRow(fetchResponse, IsHoursLabel) => fetchResult.hours = ""

\* C5 witness: the fetcher has returned after a timeout.
C5_Witness_ReturnedAfterTimeout ==
    /\ fetchResponse.kind = "timeout"
    /\ fetchResult.type = "return"

\* C6: no crawl issues more than maxPages listing-page requests.
C6_RequestsWithinCeiling == listingRequests <= maxPages

\* A crawl that ended because pageNum reached the ceiling: every page was
\* full, so hasMorePages was never cleared.
StoppedAtCeiling ==
    /\ pc = "done"
    /\ failure = "none"
    /\ hasMorePages
    /\ listingRequests = maxPages

\* C6 witness: a crawl of full pages only has ended at the ceiling.
C6_Witness_CeilingReached == StoppedAtCeiling /\ IsEquipmentCrawl

\* The messages a crawl writes when it ends at the end of the results.
EndOfResultsMessages ==
    {"total", "noProducts", "shortPage", "noListings", "noMorePages"}

\* C7, as claimed: a crawl stopped by the ceiling has returned all its
\* records and has logged a message that a normal end of results does not.
C7_CeilingLoggedAsAnomaly ==
    StoppedAtCeiling =>
        /\ returned = products
        /\ log \ EndOfResultsMessages # {}

\* C8, as claimed: products never holds a record of a window while a detail
\* fetch of that window is in flight.
C8_WrittenOnlyAfterWindowSettles ==
    \A r \in DetailsInFlight :
        \A k \in 1..Len(products) :
            ~(products[k].page = r.page /\ products[k].idx \in Batch)

\* C9: at most one listing-page request is in flight, and while one is, no
\* detail fetch is in flight and every tile of the pages that arrived has its
\* record in products.
C9_ListingPagesSequential ==
    /\ Cardinality(ListingsInFlight) <= 1
    /\ ListingsInFlight # {} =>
           /\ DetailsInFlight = {}
           /\ HoldsEachTileOnce(products)

\* C9 witness: the request for the second page is in flight.
C9_Witness_SecondPageRequested ==
    /\ ListingsInFlight # {}
    /\ IsEquipmentCrawl
    /\ Len(products) = productsPerPage

\* C10: at most BATCH_SIZE detail fetches are in flight, all of the window
\* processBatch is working on, and every item of the earlier windows of the
\* page has settled.
C10_WindowBoundsConcurrency ==
    /\ Cardinality(DetailsInFlight) <= BATCH_SIZE
    /\ \A r \in DetailsInFlight :
           /\ r.page = pageNum
           /\ r.idx \in Batch
           /\ \A j \in 1..i : detailLog[j] # "pending"

\* C10 witness: a whole window of detail fetches is in flight.
C10_Witness_FullWindowInFlight ==
    /\ pc = "window"
    /\ Cardinality(DetailsInFlight) = BATCH_SIZE


(***************************************************************************)
(* Strings.  A string is the sequence of its characters, so that the       *)
(* string functions of the source compute on it what they compute in       *)
(* JavaScript.                                                             *)
(***************************************************************************)
lowerCase ==
    <<"a", "b", "c", "d", "e", "f", "g", "h", "i", "j", "k", "l", "m",
      "n", "o", "p", "q", "r", "s", "t", "u", "v", "w", "x", "y", "z">>

upperCase ==
    <<"A", "B", "C", "D", "E", "F", "G", "H", "I", "J", "K", "L", "M",
      "N", "O", "P", "Q", "R", "S", "T", "U", "V", "W", "X", "Y", "Z">>

\* The characters the regular expression class \s matches.
Whitespace == {" ", "\t", "\n"}

IsSpace(c) == c \in Whitespace

Digits == {"0", "1", "2", "3", "4", "5", "6", "7", "8", "9"}

IsDigit(c) == c \in Digits

toUpperCaseChar(c) ==
    IF \E k \in 1..Len(lowerCase) : lowerCase[k] = c
    THEN upperCase[CHOOSE k \in 1..Len(lowerCase) : lowerCase[k] = c]
    ELSE c

toUpperCase(s) == [k \in 1..Len(s) |-> toUpperCaseChar(s[k])]

RECURSIVE trimStart(_)
trimStart(s) ==
    IF s # <<>> /\ IsSpace(Head(s)) THEN trimStart(Tail(s)) ELSE s

RECURSIVE trimEnd(_)
trimEnd(s) ==
    IF s # <<>> /\ IsSpace(s[Len(s)])
    THEN trimEnd(SubSeq(s, 1, Len(s) - 1))
    ELSE s

trim(s) == trimEnd(trimStart(s))

\* s.replace(/\s+/g, ' ')
RECURSIVE CollapseWhitespace(_)
CollapseWhitespace(s) ==
    IF s = <<>> THEN <<>>
    ELSE IF IsSpace(Head(s))
         THEN <<" ">> \o CollapseWhitespace(trimStart(s))
         ELSE <<Head(s)>> \o CollapseWhitespace(Tail(s))

(***************************************************************************)
(* The cross-source matcher of the reconciliation variant.                 *)
(***************************************************************************)
MaxItems == 2

\* Mutant of normalize: the text as it stands.
normalizeVerbatim(str) == str

normalize(str) ==
    IF str = <<>> THEN <<>>
    ELSE CollapseWhitespace(trim(toUpperCase(str)))

createMatchKey(item) ==
    LET year == item.year
        make == normalize(item.make)
        model == normalize(item.model)
        location == normalize(item.location)
    IN  year \o <<"|">> \o make \o <<"|">> \o model \o <<"|">> \o location

\* The key of a record without year, make, model and location: '|||'.
AllEmptyKey == <<"|", "|", "|">>

\* Mutant of usedKeys: the Map holds the key of the first record only.
usedKeysOfFirst(usedItems) ==
    IF usedItems = <<>> THEN {}
    ELSE {createMatchKey(usedItems[1])} \ {AllEmptyKey}

\* The keys of the Map usedKeys after the first forEach.
usedKeys(usedItems) ==
    {createMatchKey(usedItems[j]) : j \in 1..Len(usedItems)} \ {AllEmptyKey}

\* toFixed(1) of num / den: the number of tenths nearest to the quotient, the
\* larger of the two on a tie.
toFixed(num, den) == (2 * 10 * num + den) \div (2 * den)

\* Mutant of overlapPercent: the share of the second set.
overlapOfTractorHouse(duplicates, usedItems, tractorHouseItems) ==
    IF Len(tractorHouseItems) > 0
    THEN [type |-> "string",
          tenths |-> toFixed(duplicates * 100, Len(tractorHouseItems))]
    ELSE [type |-> "number", tenths |-> 0]

\* Mutant of overlapPercent: the division without its guard, 0 / 0 is NaN.
overlapUnguarded(duplicates, usedItems, tractorHouseItems) ==
    IF Len(usedItems) > 0
    THEN [type |-> "string",
          tenths |-> toFixed(duplicates * 100, Len(usedItems))]
    ELSE [type |-> "NaN", tenths |-> 0]

\* const overlapPercent: a string of one decimal, or the number 0.
overlapPercent(duplicates, usedItems, tractorHouseItems) ==
    IF Len(usedItems) > 0
    THEN [type |-> "string",
          tenths |-> toFixed(duplicates * 100, Len(usedItems))]
    ELSE [type |-> "number", tenths |-> 0]

detectDuplicates(usedItems, tractorHouseItems) ==
    LET keys == usedKeys(usedItems)
        duplicates ==
            Cardinality({k \in 1..Len(tractorHouseItems) :
                /\ createMatchKey(tractorHouseItems[k]) # AllEmptyKey
                /\ createMatchKey(tractorHouseItems[k]) \in keys})
        uniqueUsed == Len(usedItems) - duplicates
        uniqueTractorHouse == Len(tractorHouseItems) - duplicates
    IN  [duplicates |-> duplicates,
         overlapPercent |->
             overlapPercent(duplicates, usedItems, tractorHouseItems),
         uniqueUsed |-> uniqueUsed,
         uniqueTractorHouse |-> uniqueTractorHouse,
         totalUnique |-> uniqueUsed + uniqueTractorHouse]

\* Mutant of tractorHouseItemsAfter: the duplicates are taken out of the set.
tractorHouseItemsDeduplicated(usedItems, tractorHouseItems) ==
    SelectSeq(tractorHouseItems,
              LAMBDA item : createMatchKey(item) \notin usedKeys(usedItems))

\* The two arrays when detectDuplicates returns: both forEach callbacks read
\* their item (createMatchKey reads its four fields) and assign nothing to
\* it, and no element is added to or taken from either array.
usedItemsAfter(usedItems) ==
    [j \in 1..Len(usedItems) |-> usedItems[j]]

tractorHouseItemsAfter(usedItems, tractorHouseItems) ==
    [k \in 1..Len(tractorHouseItems) |-> tractorHouseItems[k]]

\* main: let duplicateInfo, replaced by detectDuplicates' result when both
\* sets have records.
duplicateInfo(usedItems, tractorHouseItems) ==
    IF Len(usedItems) > 0 /\ Len(tractorHouseItems) > 0
    THEN detectDuplicates(usedItems, tractorHouseItems)
    ELSE [duplicates |-> 0,
          overlapPercent |-> [type |-> "string", tenths |-> 0],
          uniqueUsed |-> Len(usedItems),
          uniqueTractorHouse |-> Len(tractorHouseItems),
          totalUnique |-> Len(usedItems) + Len(tractorHouseItems)]

\* The records the matcher is called on: a full record, the same record in
\* another spelling, one without a year, one of another year, one with no
\* field at all and one whose make is written without the blank.
Item(year, make, model, location) ==
    [year |-> year, make |-> make, model |-> model, location |-> location]

Items ==
    LET year2024 == <<"2", "0", "2", "4">>
        year2023 == <<"2", "0", "2", "3">>
        make == <<"J", "O", "H", "N", " ", "D", "E", "E", "R", "E">>
        makeSpelled ==
            <<"j", "o", "h", "n", " ", " ", "d", "e", "e", "r", "e", " ">>
        makeJoined == <<"J", "O", "H", "N", "D", "E", "E", "R", "E">>
        model == <<"5", "0", "9", "5", "M">>
        modelSpelled == <<"5", "0", "9", "5", "m">>
        location == <<"G", "R", "E", "T", "N", "A">>
        locationSpelled == <<" ", "G", "r", "e", "t", "n", "a">>
    IN  { Item(year2024, make, model, location),
          Item(year2024, makeSpelled, modelSpelled, locationSpelled),
          Item(<<>>, make, model, location),
          Item(year2023, make, model, location),
          Item(<<>>, <<>>, <<>>, <<>>),
          Item(year2024, makeJoined, model, location) }

RECURSIVE SeqsUpTo(_, _)
SeqsUpTo(S, n) ==
    IF n = 0 THEN {<<>>}
    ELSE LET shorter == SeqsUpTo(S, n - 1)
         IN  shorter \cup {Append(s, x) : s \in shorter, x \in S}

ItemLists == SeqsUpTo(Items, MaxItems)

\* The crawl and the detail fetcher take no part in a call of a pure function.
NoCrawl(at) ==
    /\ crawler = "scrapeEquipment"
    /\ pc = at
    /\ pageNum = 0
    /\ hasMorePages = TRUE
    /\ products = <<>>
    /\ pageProducts = <<>>
    /\ i = 0
    /\ results = <<>>
    /\ inflight = {}
    /\ browser = "null"
    /\ log = {}
    /\ outcome = "running"
    /\ returned = <<>>
    /\ failure = "none"
    /\ listingRequests = 0
    /\ pagesSeen = <<>>
    /\ detailLog = <<>>
    /\ faults = 0
    /\ fetchResponse = NoResponse
    /\ fetchResult = NoResult

InitMatch ==
    /\ NoCrawl("match")
    /\ input \in {[fn |-> "detectDuplicates", usedItems |-> a,
                   tractorHouseItems |-> b] : a \in ItemLists, b \in ItemLists}
    /\ output = NoOutput

\* A call of detectDuplicates(usedItems, tractorHouseItems).
DetectDuplicates ==
    /\ pc = "match"
    /\ output = NoOutput
    /\ output' = [fn |-> "detectDuplicates",
                  info |-> detectDuplicates(input.usedItems,
                                            input.tractorHouseItems)]
    /\ input' = [input EXCEPT
                    !.usedItems = usedItemsAfter(@),
                    !.tractorHouseItems =
                        tractorHouseItemsAfter(input.usedItems, @)]
    /\ UNCHANGED <<crawlVars, fetchResponse, fetchResult>>

\* main's reconciliation step on the two sets it read.
Reconcile ==
    /\ pc = "match"
    /\ output = NoOutput
    /\ output' = [fn |-> "main",
                  info |-> duplicateInfo(input.usedItems,
                                         input.tractorHouseItems)]
    /\ input' = IF Len(input.usedItems) > 0
                   /\ Len(input.tractorHouseItems) > 0
                THEN [input EXCEPT
                        !.usedItems = usedItemsAfter(@),
                        !.tractorHouseItems =
                            tractorHouseItemsAfter(input.usedItems, @)]
                ELSE input
    /\ UNCHANGED <<crawlVars, fetchResponse, fetchResult>>

NextMatch == DetectDuplicates \/ Reconcile

SpecMatch == InitMatch /\ [][NextMatch]_vars

(***************************************************************************)
(* Properties of the matcher                                               *)
(***************************************************************************)
\* The words of a text: its maximal runs of characters that are not blank.
RECURSIVE Words(_)
Words(s) ==
    LET t == trimStart(s)
    IN  IF t = <<>> THEN <<>>
        ELSE LET n == CHOOSE k \in 1..Len(t) :
                          /\ \A m \in 1..k : ~IsSpace(t[m])
                          /\ k = Len(t) \/ IsSpace(t[k + 1])
             IN  <<SubSeq(t, 1, n)>> \o Words(SubSeq(t, n + 1, Len(t)))

SameLetter(c, d) ==
    \/ c = d
    \/ \E k \in 1..Len(lowerCase) : {c, d} = {lowerCase[k], upperCase[k]}

SameWord(v, w) ==
    /\ Len(v) = Len(w)
    /\ \A k \in 1..Len(v) : SameLetter(v[k], w[k])

\* Two texts that differ in letter case and in the amount of whitespace only.
SameText(s, t) ==
    /\ Len(Words(s)) = Len(Words(t))
    /\ \A k \in 1..Len(Words(s)) : SameWord(Words(s)[k], Words(t)[k])

SameRecord(a, b) ==
    /\ a.year = b.year
    /\ SameText(a.make, b.make)
    /\ SameText(a.model, b.model)
    /\ SameText(a.location, b.location)

\* A record all four key components of which have text.
HasFullKey(item) ==
    /\ item.year # <<>>
    /\ Words(item.make) # <<>>
    /\ Words(item.model) # <<>>
    /\ Words(item.location) # <<>>

Matched == output.fn \in {"detectDuplicates", "main"}

SetA == input.usedItems

SetB == input.tractorHouseItems

\* C11: when every record has a full key, the duplicate count is the number
\* of records of setB for which setA holds a record of the same year and of
\* the same make, model and location up to letter case and whitespace; one
\* such record on each side counts exactly one duplicate.
C11_MatchingPairCountsOnce ==
    ( /\ Matched
      /\ \A j \in 1..Len(SetA) : HasFullKey(SetA[j])
      /\ \A k \in 1..Len(SetB) : HasFullKey(SetB[k]) )
    => output.info.duplicates =
           Cardinality({k \in 1..Len(SetB) :
               \E j \in 1..Len(SetA) : SameRecord(SetA[j], SetB[k])})

\* One record on each side, spelled differently, counted once.
C11_Witness_PairInTwoSpellings ==
    /\ output.fn = "detectDuplicates"
    /\ Len(SetA) = 1
    /\ Len(SetB) = 1
    /\ HasFullKey(SetA[1])
    /\ SetA[1] # SetB[1]
    /\ SameRecord(SetA[1], SetB[1])
    /\ output.info.duplicates = 1

\* C12: a record with an empty key component is never counted, whatever the
\* other set holds: the duplicates are the records of setB with a full key
\* that setA matches with a record with a full key.
C12_EmptyComponentNeverMatches ==
    Matched
    => output.info.duplicates =
           Cardinality({k \in 1..Len(SetB) :
               /\ HasFullKey(SetB[k])
               /\ \E j \in 1..Len(SetA) :
                      HasFullKey(SetA[j]) /\ SameRecord(SetA[j], SetB[k])})

\* The percentage p, in tenths, is quotient num / den rounded to one decimal.
IsRoundedPercent(tenths, num, den) ==
    LET d == tenths * den - 1000 * num
    IN  2 * (IF d < 0 THEN -d ELSE d) <= den

\* C13 as stated: for a non-empty setB the overlap percentage is the
\* duplicate count divided by the size of setB.
C13_OverlapIsShareOfSetB ==
    (Matched /\ Len(SetB) > 0)
    => IsRoundedPercent(output.info.overlapPercent.tenths,
                        output.info.duplicates, Len(SetB))

\* C13 amended: for a non-empty setA the overlap percentage is the duplicate
\* count divided by the size of setA, the set the lookup is built from, as a
\* percentage of one decimal.
C13_OverlapIsShareOfSetA ==
    (Matched /\ Len(SetA) > 0)
    => /\ output.info.overlapPercent.type = "string"
       /\ IsRoundedPercent(output.info.overlapPercent.tenths,
                           output.info.duplicates, Len(SetA))

\* Sets of different sizes with a duplicate: 50.0 % of setA, 100 % of setB.
C13_Witness_SetsOfDifferentSize ==
    /\ output.fn = "detectDuplicates"
    /\ Len(SetA) = 2
    /\ Len(SetB) = 1
    /\ output.info.duplicates = 1
    /\ output.info.overlapPercent.tenths = 500

\* C14: when setB is empty, and when setA is empty, the duplicate count is 0
\* and the overlap percentage is 0 and not NaN.
C14_EmptySetGivesZero ==
    (Matched /\ (Len(SetA) = 0 \/ Len(SetB) = 0))
    => /\ output.info.duplicates = 0
       /\ output.info.overlapPercent.type # "NaN"
       /\ output.info.overlapPercent.tenths = 0

\* detectDuplicates itself called with an empty setA and records in setB.
C14_Witness_EmptySetA ==
    /\ output.fn = "detectDuplicates"
    /\ Len(SetA) = 0
    /\ Len(SetB) > 0
    /\ output.info.overlapPercent = [type |-> "number", tenths |-> 0]


(***************************************************************************)
(* The location aggregator: analyzeExcelData of the heat-map analyzer and  *)
(* of its reconciliation variant.  A behaviour of SpecAggregate is one     *)
(* call; an action is the callback of eachRow on one row of a sheet.       *)
(***************************************************************************)
MaxSheetRows == 2

lowerCaseOf(c) ==
    IF \E k \in 1..Len(upperCase) : upperCase[k] = c
    THEN lowerCase[CHOOSE k \in 1..Len(upperCase) : upperCase[k] = c]
    ELSE c

toLowerCase(s) == [k \in 1..Len(s) |-> lowerCaseOf(s[k])]

\* s.includes(part)
includes(s, part) ==
    \E k \in 0..(Len(s) - Len(part)) : SubSeq(s, k + 1, k + Len(part)) = part

\* s.replace(/\s+/g, '')
RemoveWhitespace(s) == SelectSeq(s, LAMBDA c : ~IsSpace(c))

\* Three of the 27 keys of the table of the heat-map analyzer, and of the
\* table of the reconciliation variant.
STORE_LOCATIONS ==
    { <<"G", "R", "E", "T", "N", "A">>,
      <<"Y", "O", "R", "K">>,
      <<"M", "c", "C", "O", "O", "K">> }

STORE_LOCATIONS_reconciliation ==
    { <<"G", "R", "E", "T", "N", "A">>,
      <<"Y", "O", "R", "K">>,
      <<"M", "C", "C", "O", "O", "K">> }

Variants == {"heatmap", "reconciliation"}

StoreLocations(variant) ==
    IF variant = "heatmap" THEN STORE_LOCATIONS
    ELSE STORE_LOCATIONS_reconciliation

\* let location = null
Null == <<>>

\* The header cells of the columns the model keeps, in column order.
HeaderModel == <<"M", "o", "d", "e", "l">>

HeaderLocation == <<"L", "o", "c", "a", "t", "i", "o", "n">>

HeaderCategory == <<"C", "a", "t", "e", "g", "o", "r", "y">>

Cell(header, value) == [header |-> header, value |-> value]

\* eachCell visits the cells that have a value.
CellsOf(model, location, category) ==
    SelectSeq(<<Cell(HeaderModel, model), Cell(HeaderLocation, location),
                Cell(HeaderCategory, category)>>,
              LAMBDA c : c.value # <<>>)

ModelValues == {<<"5", "0", "9", "5", "M">>, <<"Y", "O", "R", "K">>}

LocationValues ==
    { <<>>,
      <<"G", "r", "e", "t", "n", "a">>,
      <<"O", "M", "A", "H", "A">>,
      <<"M", "c", "C", "o", "o", "k">> }

CategoryValues == {<<>>, <<"Y", "O", "R", "K">>}

\* The files the scrapers write and the sheets they hold.
Sheets ==
    LET allEquipment ==
            <<"a", "k", "r", "s", "-", "a", "l", "l", "-", "e", "q", "u",
              "i", "p", "m", "e", "n", "t", ".", "x", "l", "s", "x">>
        tractorHouse ==
            <<"a", "k", "r", "s", "-", "t", "r", "a", "c", "t", "o", "r",
              "-", "h", "o", "u", "s", "e", ".", "x", "l", "s", "x">>
    IN  { [filename |-> allEquipment,
           name |-> <<"N", "e", "w", " ", "E", "q", "u", "i", "p", "m", "e",
                      "n", "t">>],
          [filename |-> allEquipment,
           name |-> <<"U", "s", "e", "d", " ", "E", "q", "u", "i", "p", "m",
                      "e", "n", "t">>],
          [filename |-> tractorHouse,
           name |-> <<"T", "r", "a", "c", "t", "o", "r", " ", "H", "o", "u",
                      "s", "e">>] }

HeaderRow(sheet) ==
    [filename |-> sheet.filename, sheet |-> sheet.name, rowNumber |-> 1,
     cells |-> CellsOf(HeaderModel, HeaderLocation, HeaderCategory)]

DataRows ==
    {[filename |-> sheet.filename, sheet |-> sheet.name, rowNumber |-> 2,
      cells |-> CellsOf(m, l, c)] :
        sheet \in Sheets, m \in ModelValues, l \in LocationValues,
        c \in CategoryValues}

SheetRows == {HeaderRow(sheet) : sheet \in Sheets} \cup DataRows

\* headers[colNumber]
headerOf(cell) == RemoveWhitespace(toLowerCase(cell.header))

\* Heat-map analyzer: the row's location after row.eachCell, the value of the
\* last cell that is a key of the table.
locationOfRow(row) ==
    LET value(k) == trim(toUpperCase(row.cells[k].value))
        hits == {k \in 1..Len(row.cells) : value(k) \in STORE_LOCATIONS}
    IN  IF hits = {} THEN Null
        ELSE value(CHOOSE k \in hits : \A m \in hits : m <= k)

NoItem == [year |-> <<>>, make |-> <<>>, model |-> <<>>, location |-> <<>>]

\* Reconciliation variant: the body of row.eachCell on one cell.
ReadCell(cell, item) ==
    LET header == headerOf(cell)
        value == trim(cell.value)
        byHeader ==
            IF header = <<"y", "e", "a", "r">>
            THEN [item EXCEPT !.year = value]
            ELSE IF \/ header = <<"m", "a", "k", "e">>
                    \/ header = <<"b", "r", "a", "n", "d">>
                 THEN [item EXCEPT !.make = value]
            ELSE IF header = <<"m", "o", "d", "e", "l">>
                 THEN [item EXCEPT !.model = value]
            ELSE IF header = <<"l", "o", "c", "a", "t", "i", "o", "n">>
                 THEN [item EXCEPT !.location = trim(toUpperCase(value))]
            ELSE item
    IN  IF trim(toUpperCase(value)) \in STORE_LOCATIONS_reconciliation
        THEN [byHeader EXCEPT !.location = trim(toUpperCase(value))]
        ELSE byHeader

\* Reconciliation variant: item after row.eachCell; location and
\* item.location are assigned together, so item.location is the location.
RECURSIVE ReadCells(_, _)
ReadCells(cells, item) ==
    IF cells = <<>> THEN item
    ELSE ReadCells(Tail(cells), ReadCell(Head(cells), item))

itemOfRow(row) == ReadCells(row.cells, NoItem)

locationOfRowReconciled(row) == itemOfRow(row).location

\* The per-source counter the row is counted in, "none" if in none.
sourceOfRow(row) ==
    IF includes(toLowerCase(row.sheet), <<"n", "e", "w">>) THEN "new"
    ELSE IF includes(toLowerCase(row.sheet), <<"u", "s", "e", "d">>) THEN "used"
    ELSE "none"

sourceOfRowReconciled(row) ==
    LET sheetName == toLowerCase(row.sheet)
        isTractorHouse ==
            includes(row.filename,
                     <<"t", "r", "a", "c", "t", "o", "r", "-", "h", "o", "u",
                       "s", "e">>)
        isInventory ==
            \/ includes(sheetName, <<"t", "r", "a", "c", "t", "o", "r">>)
            \/ includes(sheetName,
                        <<"i", "n", "v", "e", "n", "t", "o", "r", "y">>)
    IN  IF isTractorHouse /\ isInventory THEN "tractorHouse"
        ELSE IF includes(sheetName, <<"n", "e", "w">>) THEN "new"
        ELSE IF includes(sheetName, <<"u", "s", "e", "d">>) THEN "used"
        ELSE "none"

NoStats(variant, location) ==
    [total |-> 0, new |-> 0, used |-> 0, tractorHouse |-> 0,
     coordinates |-> IF location \in StoreLocations(variant)
                     THEN "entry" ELSE "undefined"]

\* Mutant of Counted: the location's total is raised only for a row whose
\* sheet or file names a source.
CountedWhenSourced(variant, stats, location, source) ==
    LET old == IF location \in DOMAIN stats THEN stats[location]
               ELSE NoStats(variant, location)
        new == [old EXCEPT
                  !.total = IF source = "none" THEN @ ELSE @ + 1,
                  !.new = IF source = "new" THEN @ + 1 ELSE @,
                  !.used = IF source = "used" THEN @ + 1 ELSE @,
                  !.tractorHouse =
                      IF source = "tractorHouse" THEN @ + 1 ELSE @]
    IN  [l \in DOMAIN stats \cup {location} |->
            IF l = location THEN new ELSE stats[l]]

\* locationStats[location] after the row was counted under location.
Counted(variant, stats, location, source) ==
    LET old == IF location \in DOMAIN stats THEN stats[location]
               ELSE NoStats(variant, location)
        new == [old EXCEPT
                  !.total = @ + 1,
                  !.new = IF source = "new" THEN @ + 1 ELSE @,
                  !.used = IF source = "used" THEN @ + 1 ELSE @,
                  !.tractorHouse =
                      IF source = "tractorHouse" THEN @ + 1 ELSE @]
    IN  [l \in DOMAIN stats \cup {location} |->
            IF l = location THEN new ELSE stats[l]]

\* No row read yet.
NoRow == [filename |-> <<>>, sheet |-> <<>>, rowNumber |-> 0, cells |-> <<>>]

NoTotals == [new |-> 0, used |-> 0, tractorHouse |-> 0]

NoItems == [used |-> <<>>, tractorHouse |-> <<>>]

InitAggregate ==
    /\ NoCrawl("aggregate")
    /\ input \in {[fn |-> "analyzeExcelData", variant |-> v, rowsRead |-> 0,
                   row |-> NoRow] : v \in Variants}
    /\ output = [fn |-> "analyzeExcelData", locationStats |-> <<>>,
                 totalProducts |-> 0, totalByType |-> NoTotals,
                 allItems |-> NoItems]

\* The heat-map analyzer's eachRow callback on one row.
AnalyzeRow(row) ==
    /\ pc = "aggregate"
    /\ input.variant = "heatmap"
    /\ input.rowsRead < MaxSheetRows
    /\ input' = [input EXCEPT !.rowsRead = @ + 1, !.row = row]
    /\ LET location == locationOfRow(row)
       IN  IF row.rowNumber = 1 \/ location = Null
           THEN output' = output
           ELSE output' =
                    [output EXCEPT
                       !.locationStats =
                           Counted("heatmap", @, location, sourceOfRow(row)),
                       !.totalProducts = @ + 1]
    /\ UNCHANGED <<crawlVars, fetchResponse, fetchResult>>

\* The reconciliation variant's eachRow callback on one row.
AnalyzeRowReconciled(row) ==
    /\ pc = "aggregate"
    /\ input.variant = "reconciliation"
    /\ input.rowsRead < MaxSheetRows
    /\ input' = [input EXCEPT !.rowsRead = @ + 1, !.row = row]
    /\ LET location == locationOfRowReconciled(row)
           item == itemOfRow(row)
           source == sourceOfRowReconciled(row)
       IN  IF row.rowNumber = 1 \/ location = Null
           THEN output' = output
           ELSE output' =
                    [output EXCEPT
                       !.locationStats =
                           Counted("reconciliation", @, location, source),
                       !.totalProducts = @ + 1,
                       !.totalByType =
                           IF source = "none" THEN @
                           ELSE [@ EXCEPT ![source] = @ + 1],
                       !.allItems =
                           IF source \in {"used", "tractorHouse"}
                           THEN [@ EXCEPT ![source] = Append(@, item)]
                           ELSE @]
    /\ UNCHANGED <<crawlVars, fetchResponse, fetchResult>>

NextAggregate ==
    \/ \E row \in SheetRows : AnalyzeRow(row)
    \/ \E row \in SheetRows : AnalyzeRowReconciled(row)

SpecAggregate == InitAggregate /\ [][NextAggregate]_vars

(***************************************************************************)
(* Properties of the aggregator                                            *)
(***************************************************************************)
Aggregated == input.fn = "analyzeExcelData"

\* The text of the row's Location column in the table's spelling, <<>> if
\* the row has none.
LocationColumn(row) ==
    LET at == {k \in 1..Len(row.cells) :
                   row.cells[k].header = HeaderLocation}
    IN  IF at = {} THEN <<>>
        ELSE trim(toUpperCase(row.cells[CHOOSE k \in at : TRUE].value))

\* The row holds a store name in a column that is not its Location column.
StoreNameElsewhere(row, variant) ==
    \E k \in 1..Len(row.cells) :
        /\ row.cells[k].header # HeaderLocation
        /\ trim(toUpperCase(row.cells[k].value)) \in StoreLocations(variant)

\* C15: in both variants a row whose location is not a key of the table
\* changes nothing in the aggregate (no entry, no total, no per-source
\* counter), and every key of the aggregate is a key of the table.
C15_UnknownLocationExcluded ==
    [][ Aggregated' =>
          /\ ( /\ LocationColumn(input'.row)
                      \notin StoreLocations(input'.variant)
               /\ ~StoreNameElsewhere(input'.row, input'.variant) )
             => output' = output
          /\ DOMAIN output'.locationStats
                 \subseteq StoreLocations(input'.variant) ]_vars

(***************************************************************************)
(* The colour of a location's marker: getColor of the page the heat-map    *)
(* analyzer writes and of the page its reconciliation variant writes, and  *)
(* the legend printed beside the map.                                      *)
(***************************************************************************)
MaxCount == 160

\* Mutant of getColor: the thresholds belong to the upper tier.
getColorFromThreshold(count) ==
    IF count >= 50 THEN "#d32f2f"
    ELSE IF count >= 20 THEN "#ff9800"
    ELSE "#4caf50"

getColor(count) ==
    IF count > 50 THEN "#d32f2f"
    ELSE IF count > 20 THEN "#ff9800"
    ELSE "#4caf50"

getColorReconciled(count) ==
    IF count > 150 THEN "#d32f2f"
    ELSE IF count > 100 THEN "#ff9800"
    ELSE "#4caf50"

\* The legend of the heat-map analyzer's page (and of the README): what
\* each colour is said to stand for.
legend ==
    [c \in {"#d32f2f", "#ff9800", "#4caf50"} |->
        IF c = "#d32f2f"
        THEN [label |-> "High Inventory", from |-> 50, open |-> TRUE,
              to |-> 50]
        ELSE IF c = "#ff9800"
        THEN [label |-> "Medium Inventory", from |-> 20, open |-> FALSE,
              to |-> 49]
        ELSE [label |-> "Low Inventory", from |-> 1, open |-> FALSE,
              to |-> 19]]

InitTier ==
    /\ NoCrawl("tier")
    /\ input \in {[fn |-> "getColor", variant |-> v, count |-> n] :
                      v \in Variants, n \in 0..MaxCount}
    /\ output = NoOutput

\* A call of getColor(count) in the heat-map analyzer's page.
GetColor ==
    /\ pc = "tier"
    /\ input.variant = "heatmap"
    /\ output = NoOutput
    /\ output' = [fn |-> "getColor", color |-> getColor(input.count)]
    /\ UNCHANGED <<crawlVars, fetchResponse, fetchResult, input>>

\* A call of getColor(count) in the reconciliation variant's page.
GetColorReconciled ==
    /\ pc = "tier"
    /\ input.variant = "reconciliation"
    /\ output = NoOutput
    /\ output' = [fn |-> "getColor",
                  color |-> getColorReconciled(input.count)]
    /\ UNCHANGED <<crawlVars, fetchResponse, fetchResult, input>>

NextTier == GetColor \/ GetColorReconciled

SpecTier == InitTier /\ [][NextTier]_vars

(***************************************************************************)
(* Properties of the tiers                                                 *)
(***************************************************************************)
Coloured == output.fn = "getColor"

\* Red stands for high, orange for medium and green for low inventory.
Tier ==
    IF output.color = "#d32f2f" THEN "HIGH"
    ELSE IF output.color = "#ff9800" THEN "MEDIUM"
    ELSE "LOW"

TierUnder(high, medium, count) ==
    IF count > high THEN "HIGH"
    ELSE IF medium < count /\ count <= high THEN "MEDIUM"
    ELSE "LOW"

C17_LegendCoversCount ==
    (Coloured /\ input.variant = "heatmap" /\ input.count >= 1)
    => /\ legend[output.color].from <= input.count
       /\ legend[output.color].open \/ input.count <= legend[output.color].to


(***************************************************************************)
(* The record normalizer: parseProductName and cleanPrice of the equipment *)
(* scrapers.                                                               *)
(***************************************************************************)
MaxGap == 2

\* The length of the longest run of characters of the class that starts at
\* position p of s, 0 if there is none.
RunFrom(s, p, class) ==
    IF p > Len(s) THEN 0
    ELSE CHOOSE k \in 0..(Len(s) - p + 1) :
             /\ \A m \in 0..(k - 1) : s[p + m] \in class
             /\ p + k > Len(s) \/ s[p + k] \notin class

\* The characters the regular expression class . matches.
IsAnyChar(c) == c \notin {"\n", "\r"}

\* /\s+-\s+(\d+)/ applied at position q: the whitespace, the hyphen, the
\* whitespace and the digits can be matched in one way only.
SuffixMatches(s, q) ==
    LET x == RunFrom(s, q, Whitespace)
        y == RunFrom(s, q + x + 1, Whitespace)
    IN  /\ x >= 1
        /\ q + x <= Len(s)
        /\ s[q + x] = "-"
        /\ y >= 1
        /\ RunFrom(s, q + x + 1 + y, Digits) >= 1

\* The third group of a match whose model ends before position q.
SuffixDigits(s, q) ==
    LET x == RunFrom(s, q, Whitespace)
        y == RunFrom(s, q + x + 1, Whitespace)
        t == q + x + 1 + y
    IN  SubSeq(s, t, t + RunFrom(s, t, Digits) - 1)

\* The ways /(\d{4})\s+(.+?)\s+-\s+(\d+)/ matches at position p: the whitespace
\* after the year takes w characters and the model m characters.
MatchesAt(s, p) ==
    IF p + 3 > Len(s) \/ \E k \in p..(p + 3) : ~IsDigit(s[k]) THEN {}
    ELSE {wm \in (1..RunFrom(s, p + 4, Whitespace)) \X (1..Len(s)) :
             /\ p + 4 + wm[1] + wm[2] - 1 <= Len(s)
             /\ \A k \in (p + 4 + wm[1])..(p + 4 + wm[1] + wm[2] - 1) :
                    IsAnyChar(s[k])
             /\ SuffixMatches(s, p + 4 + wm[1] + wm[2])}

\* The groups of the match at p the engine finds first: the whitespace is
\* greedy, the model is lazy.
GroupsAt(s, p) ==
    LET found == MatchesAt(s, p)
        w == CHOOSE w \in {wm[1] : wm \in found} :
                 \A wm \in found : wm[1] <= w
        m == CHOOSE m \in {wm[2] : wm \in {f \in found : f[1] = w}} :
                 \A wm \in {f \in found : f[1] = w} : m <= wm[2]
        from == p + 4 + w
    IN  [year |-> SubSeq(s, p, p + 3),
         model |-> SubSeq(s, from, from + m - 1),
         productId |-> SuffixDigits(s, from + m)]

\* The positions nameText.match tries: every position, leftmost first.
MatchStarts(s) == 1..Len(s)

parseProductName(nameText) ==
    LET starts == {p \in MatchStarts(nameText) :
                       MatchesAt(nameText, p) # {}}
    IN  IF nameText = <<>>
        THEN [year |-> <<>>, model |-> <<>>, productId |-> <<>>]
        ELSE IF starts # {}
        THEN GroupsAt(nameText, CHOOSE p \in starts : \A r \in starts : p <= r)
        ELSE [year |-> <<>>, model |-> nameText, productId |-> <<>>]

\* The names the model parses: a year, a model and an id with or without
\* text before and after them, with and without the blanks and the hyphen.
Spaces(n) == [k \in 1..n |-> " "]

ProductNames ==
    {<<>>} \cup
    {before \o year \o gap \o model \o hyphen \o id \o after :
        before \in {<<>>, <<"1">>, <<"N", "e", "w", " ">>},
        year \in {<<"2", "0", "2", "4">>, <<"2", "0", "2">>},
        gap \in {Spaces(n) : n \in 0..MaxGap},
        model \in { <<"5", "0", "9", "5", "M">>,
                    <<"9", "R", "X", " ", "6", "4", "0">>,
                    <<"8", "R", " ", "-", " ", "4", "1", "0">> },
        hyphen \in {<<" ", "-", " ">>, <<"-">>, <<>>},
        id \in {<<"4", "3", "1", "5", "3", "9">>, <<>>},
        after \in {<<>>, <<" ", "S", "O", "L", "D">>}}

InitName ==
    /\ NoCrawl("name")
    /\ input \in {[fn |-> "parseProductName", nameText |-> n] :
                      n \in ProductNames}
    /\ output = NoOutput

\* A call of parseProductName(nameText).
ParseProductName ==
    /\ pc = "name"
    /\ output = NoOutput
    /\ output' = [fn |-> "parseProductName",
                  parsed |-> parseProductName(input.nameText)]
    /\ UNCHANGED <<crawlVars, fetchResponse, fetchResult, input>>

NextName == ParseProductName

SpecName == InitName /\ [][NextName]_vars

(***************************************************************************)
(* Properties of parseProductName                                          *)
(***************************************************************************)
Parsed == output.fn = "parseProductName"

\* The length of the run of characters of the class that ends at position p
\* of s.
RunBefore(s, p, class) ==
    IF p < 1 THEN 0
    ELSE CHOOSE k \in 0..p :
             /\ \A m \in 0..(k - 1) : s[p - m] \in class
             /\ k = p \/ s[p - k] \notin class

\* Where the name ends with ' - <digits>': the position of the hyphen that
\* blanks and then digits follow up to the end and a blank precedes, 0 if
\* the name does not end so.
SuffixHyphen(s) ==
    LET digits == RunBefore(s, Len(s), Digits)
        blanks == RunBefore(s, Len(s) - digits, Whitespace)
        at == Len(s) - digits - blanks
    IN  IF /\ digits >= 1
           /\ blanks >= 1
           /\ at >= 2
           /\ s[at] = "-"
           /\ IsSpace(s[at - 1])
        THEN at ELSE 0

\* The whole name has the shape '<4-digit year> <model> - <digits>' with a
\* model of at least one character.
HasWholeShape(s) ==
    /\ SuffixHyphen(s) >= 8
    /\ \A k \in 1..4 : IsDigit(s[k])
    /\ IsSpace(s[5])

\* The year, model and id of a name of that shape, the model without the
\* blanks around it.
ShapeParts(s) ==
    LET hyphen == SuffixHyphen(s)
        from == 5 + RunFrom(s, 5, Whitespace)
        to == hyphen - 1 - RunBefore(s, hyphen - 1, Whitespace)
    IN  [year |-> SubSeq(s, 1, 4),
         model |-> SubSeq(s, from, to),
         productId |->
             SubSeq(s, Len(s) - RunBefore(s, Len(s), Digits) + 1, Len(s))]

NoMatch(s) == [year |-> <<>>, model |-> s, productId |-> <<>>]

\* C18: a name of the shape '<4-digit year> <model> - <digits>' is mapped to
\* that year, model and id; every name that does not end with ' - <digits>'
\* gives empty year, empty id and the full string as model; the empty name
\* gives three empty fields.
C18_NameParsedByShape ==
    Parsed =>
        /\ (HasWholeShape(input.nameText)
                /\ ShapeParts(input.nameText).model # <<>>)
           => output.parsed = ShapeParts(input.nameText)
        /\ (input.nameText # <<>> /\ SuffixHyphen(input.nameText) = 0)
           => output.parsed = NoMatch(input.nameText)
        /\ input.nameText = <<>>
           => output.parsed =
                  [year |-> <<>>, model |-> <<>>, productId |-> <<>>]

\* C19: the pattern is anchored; a name is split only when the whole string
\* has the shape, and a name with text before the year or after the id gives
\* empty year, empty id and the entire string as model.
C19_PatternAnchored ==
    (Parsed /\ input.nameText # <<>> /\ ~HasWholeShape(input.nameText))
    => output.parsed = NoMatch(input.nameText)


(***************************************************************************)
(* cleanPrice                                                              *)
(***************************************************************************)
MaxSegments == 3

\* Mutant of RemoveAll: the replacement without the g flag.
RemoveFirst(s, pattern) ==
    LET at == {k \in 0..(Len(s) - Len(pattern)) :
                   toUpperCase(SubSeq(s, k + 1, k + Len(pattern)))
                       = toUpperCase(pattern)}
    IN  IF at = {} THEN s
        ELSE LET k == CHOOSE k \in at : \A m \in at : k <= m
             IN  SubSeq(s, 1, k) \o SubSeq(s, k + Len(pattern) + 1, Len(s))

\* s.replace(/pattern/gi, ''): the occurrences are found from the left, the
\* search going on behind each of them.
RECURSIVE RemoveAll(_, _)
RemoveAll(s, pattern) ==
    IF Len(s) < Len(pattern) THEN s
    ELSE IF toUpperCase(SubSeq(s, 1, Len(pattern))) = toUpperCase(pattern)
         THEN RemoveAll(SubSeq(s, Len(pattern) + 1, Len(s)), pattern)
         ELSE <<Head(s)>> \o RemoveAll(Tail(s), pattern)

StartingAt == <<"S", "t", "a", "r", "t", "i", "n", "g", " ", "a", "t">>

ListPrice == <<"L", "i", "s", "t", " ", "P", "r", "i", "c", "e", ":">>

cleanPrice(priceText) ==
    IF priceText = <<>> THEN <<>>
    ELSE trim(CollapseWhitespace(
             RemoveAll(RemoveAll(priceText, StartingAt), ListPrice)))

\* What a price text is made of: the prefixes in two spellings, whitespace
\* and amounts.
PrefixSegments ==
    { <<"S", "t", "a", "r", "t", "i", "n", "g", " ", "a", "t">>,
      <<"S", "T", "A", "R", "T", "I", "N", "G", " ", "A", "T">>,
      <<"L", "i", "s", "t", " ", "P", "r", "i", "c", "e", ":">>,
      <<"l", "i", "s", "t", " ", "p", "r", "i", "c", "e", ":">> }

WhitespaceSegments == {<<" ">>, <<"\t", "\n">>}

AmountSegments ==
    { <<"$", "9", "6", ",", "9", "7", "7", ".", "2", "5">>,
      <<"C", "a", "l", "l">> }

Segments == PrefixSegments \cup WhitespaceSegments \cup AmountSegments

RECURSIVE Concat(_)
Concat(segments) ==
    IF segments = <<>> THEN <<>>
    ELSE Head(segments) \o Concat(Tail(segments))

InitPrice ==
    /\ NoCrawl("price")
    /\ input \in {[fn |-> "cleanPrice", segments |-> segments,
                   priceText |-> Concat(segments)] :
                      segments \in SeqsUpTo(Segments, MaxSegments)}
    /\ output = NoOutput

\* A call of cleanPrice(priceText).
CleanPrice ==
    /\ pc = "price"
    /\ output = NoOutput
    /\ output' = [fn |-> "cleanPrice", price |-> cleanPrice(input.priceText)]
    /\ UNCHANGED <<crawlVars, fetchResponse, fetchResult, input>>

NextPrice == CleanPrice

SpecPrice == InitPrice /\ [][NextPrice]_vars

(***************************************************************************)
(* Properties of cleanPrice                                                *)
(***************************************************************************)
Cleaned == output.fn = "cleanPrice"

\* The words joined by one blank each.
RECURSIVE JoinWords(_)
JoinWords(words) ==
    IF words = <<>> THEN <<>>
    ELSE IF Len(words) = 1 THEN Head(words)
    ELSE Head(words) \o <<" ">> \o JoinWords(Tail(words))

\* The text without its prefixes: what is left of the segments.
WithoutPrefixes(segments) ==
    Concat(SelectSeq(segments, LAMBDA s : s \notin PrefixSegments))

\* C20: the cleaned price is the text without any of its prefixes, in any
\* letter case, with one blank for each run of whitespace inside it and none
\* at its ends; the characters of the amounts are unchanged, and the empty
\* text gives the empty string.
C20_PriceCleaned ==
    Cleaned =>
        /\ output.price = JoinWords(Words(WithoutPrefixes(input.segments)))
        /\ input.priceText = <<>> => output.price = <<>>

\* "Starting at $96,977.25" cleans to "$96,977.25".
C20_Witness_StartingAtRemoved ==
    /\ Cleaned
    /\ input.priceText =
           <<"S", "t", "a", "r", "t", "i", "n", "g", " ", "a", "t", " ",
             "$", "9", "6", ",", "9", "7", "7", ".", "2", "5">>
    /\ output.price = <<"$", "9", "6", ",", "9", "7", "7", ".", "2", "5">>

\* C21: every counted record adds one to its location's total and to exactly
\* one per-source counter, so each location of the aggregate has
\* total = new + used (heat-map analyzer) and
\* total = new + used + tractorHouse (reconciliation variant).
C21_TotalIsSumOfSources ==
    Aggregated =>
        \A l \in DOMAIN output.locationStats :
            LET stats == output.locationStats[l]
            IN  IF input.variant = "heatmap"
                THEN stats.total = stats.new + stats.used
                ELSE stats.total =
                         stats.new + stats.used + stats.tractorHouse

\* The text of the row's Location column as the sheet holds it.
LocationText(row) ==
    LET at == {k \in 1..Len(row.cells) :
                   row.cells[k].header = HeaderLocation}
    IN  IF at = {} THEN <<>>
        ELSE trim(row.cells[CHOOSE k \in at : TRUE].value)

TotalOf(stats, name) ==
    IF name \in DOMAIN stats THEN stats[name].total ELSE 0

\* C29: every key of the table is an upper-case name, and a data row whose
\* location is a store name of the table, in any letter case, is counted
\* under that name's entry.
C29_EveryEntryReachable ==
    [][ Aggregated' =>
          \A name \in StoreLocations(input'.variant) :
              /\ toUpperCase(name) = name
              /\ ( /\ input'.row.rowNumber > 1
                   /\ SameWord(LocationText(input'.row), name)
                   /\ ~StoreNameElsewhere(input'.row, input'.variant) )
                 => TotalOf(output'.locationStats, name)
                        = TotalOf(output.locationStats, name) + 1 ]_vars

(***************************************************************************)
(* The matcher and its arguments                                           *)
(***************************************************************************)
KeyFields == {"year", "make", "model", "location"}

\* The record carries a mark beside its four fields.
IsFlagged(item) == DOMAIN item # KeyFields

\* The records of setB that detectDuplicates counted.
CountedDuplicates ==
    {k \in 1..Len(SetB) :
        /\ createMatchKey(SetB[k]) # AllEmptyKey
        /\ createMatchKey(SetB[k]) \in usedKeys(SetA)}

\* C22 as stated: detectDuplicates leaves both record sets as they were and
\* the duplicates are flagged on the records.
C22_DuplicatesFlaggedNotRemoved ==
    [][ (output.fn = "none" /\ output'.fn = "detectDuplicates") =>
          /\ Len(input'.usedItems) = Len(input.usedItems)
          /\ Len(input'.tractorHouseItems) = Len(input.tractorHouseItems)
          /\ \A k \in CountedDuplicates :
                 /\ k <= Len(input'.tractorHouseItems)
                 /\ IsFlagged(input'.tractorHouseItems[k])
                 /\ \A f \in KeyFields :
                        input'.tractorHouseItems[k][f] = SetB[k][f] ]_vars

\* C22 amended: detectDuplicates leaves both record sets unchanged (same
\* length, same records, same field values) and only counts the duplicates:
\* no record is removed and none is marked, the result is five numbers.
C22_MatcherAltersNothing ==
    [][ (output.fn = "none" /\ output'.fn \in {"detectDuplicates", "main"}) =>
          /\ input'.usedItems = input.usedItems
          /\ input'.tractorHouseItems = input.tractorHouseItems
          /\ \A k \in 1..Len(input'.tractorHouseItems) :
                 ~IsFlagged(input'.tractorHouseItems[k])
          /\ DOMAIN output'.info =
                 {"duplicates", "overlapPercent", "uniqueUsed",
                  "uniqueTractorHouse", "totalUnique"} ]_vars

\* Two records in setB, one of them a duplicate, both still there.
C22_Witness_DuplicateStillInSet ==
    /\ output.fn = "detectDuplicates"
    /\ Len(SetB) = 2
    /\ output.info.duplicates = 1
    /\ output.info.uniqueTractorHouse = 1

(***************************************************************************)
(* main of the three scrapers: the crawl(s), the test for an empty result, *)
(* saveToExcel and main's catch block.                                     *)
(*                                                                         *)
(*   all-equipment   src/scrape-all-equipment.js  two calls of             *)
(*                   scrapeEquipment, one workbook of two sheets           *)
(*   tractor-house   src/scrape-tractor-house.js  scrapeInventoryListings  *)
(*   used-equipment  src/unnamed/part_000         scrapeProducts           *)
(*                                                                         *)
(* A behaviour of SpecRun is one run of one scraper: input holds which,    *)
(* output main's locals, and the crawl variables the crawl main awaits.    *)
(***************************************************************************)
Scrapers == {"all-equipment", "tractor-house", "used-equipment"}

\* The crawl function a scraper's main calls.
CrawlerOf(scraper) ==
    IF scraper = "tractor-house"
    THEN "scrapeInventoryListings"
    ELSE "scrapeEquipment"

\* workbook.addWorksheet(...): the sheets of a scraper's workbook, one for
\* each crawl of its main, in the order of the crawls.
SheetNames(scraper) ==
    CASE scraper = "all-equipment" -> <<"New Equipment", "Used Equipment">>
      [] scraper = "tractor-house" -> <<"Tractor House">>
      [] scraper = "used-equipment" -> <<"AKRS Used Equipment">>

\* The sheets that have an Hours column: the New Equipment sheet has none.
HasHoursColumn(sheet) == sheet # "New Equipment"

\* sheet.addRow({...}): the row written for a product.  tile stands for the
\* columns copied from the listing tile.
RowOf(sheet, product) ==
    IF HasHoursColumn(sheet)
    THEN [tile |-> <<product.page, product.idx>>,
          location |-> product.location,
          hours |-> product.hours]
    ELSE [tile |-> <<product.page, product.idx>>,
          location |-> product.location]

\* products.forEach(product => sheet.addRow(...))
RowsOf(sheet, records) ==
    [k \in 1..Len(records) |-> RowOf(sheet, records[k])]

\* Mutant of Workbook: only the crawls that ended without a failure are
\* written.
WorkbookOfCompleteCrawls(scraper, crawled) ==
    [k \in 1..Len(crawled) |->
        [name |-> SheetNames(scraper)[k],
         rows |-> IF crawled[k].failure = "none"
                  THEN RowsOf(SheetNames(scraper)[k], crawled[k].value)
                  ELSE <<>>]]

\* saveToExcel: the workbook built from the values the crawls returned.
Workbook(scraper, crawled) ==
    [k \in 1..Len(crawled) |->
        [name |-> SheetNames(scraper)[k],
         rows |-> RowsOf(SheetNames(scraper)[k], crawled[k].value)]]

\* Mutant of NoProductsFound: || in place of &&.
NoProductsFoundInAny(crawled) ==
    \E k \in 1..Len(crawled) : Len(crawled[k].value) = 0

\* if (newProducts.length === 0 && usedProducts.length === 0)
\* (one crawl: if (products.length === 0))
NoProductsFound(crawled) ==
    \A k \in 1..Len(crawled) : Len(crawled[k].value) = 0

\* The catch block of main: the error is logged; the Tractor House main then
\* calls process.exit(1).
MainCatch(scraper) ==
    [pc |-> "done",
     log |-> {"mainError"},
     exitCode |-> IF scraper = "tractor-house" THEN 1 ELSE 0]

InitRun ==
    /\ input \in {[fn |-> "main", scraper |-> s] : s \in Scrapers}
    /\ output = [fn |-> "main", pc |-> "crawl", crawled |-> <<>>, log |-> {},
                 files |-> <<>>, exitCode |-> 0]
    /\ crawler = CrawlerOf(input.scraper)
    /\ pc = IF IsTractorHouse(crawler) THEN "launch" ELSE "loop"
    /\ pageNum = IF IsTractorHouse(crawler) THEN 1 ELSE 0
    /\ hasMorePages = TRUE
    /\ products = <<>>
    /\ pageProducts = <<>>
    /\ i = 0
    /\ results = <<>>
    /\ inflight = {}
    /\ browser = "null"
    /\ log = {}
    /\ outcome = "running"
    /\ returned = <<>>
    /\ failure = "none"
    /\ listingRequests = 0
    /\ pagesSeen = <<>>
    /\ detailLog = <<>>
    /\ faults = 0
    /\ fetchResponse = NoResponse
    /\ fetchResult = NoResult

\* const usedProducts = await scrapeEquipment(...): the next crawl function
\* is called and runs up to its first await.
CallCrawl(c) ==
    /\ crawler' = c
    /\ pc' = IF IsTractorHouse(c) THEN "launch" ELSE "loop"
    /\ pageNum' = IF IsTractorHouse(c) THEN 1 ELSE 0
    /\ hasMorePages' = TRUE
    /\ products' = <<>>
    /\ pageProducts' = <<>>
    /\ i' = 0
    /\ results' = <<>>
    /\ inflight' = {}
    /\ browser' = "null"
    /\ log' = {}
    /\ outcome' = "running"
    /\ returned' = <<>>
    /\ failure' = "none"
    /\ listingRequests' = 0
    /\ pagesSeen' = <<>>
    /\ detailLog' = <<>>
    /\ faults' = 0

\* The crawl main awaits has settled and main runs on: to the next crawl, to
\* the return after 'No products found', or into saveToExcel as far as its
\* await of workbook.xlsx.writeFile.  In crawled, value is what the crawl
\* returned; failure and gathered are history: how the crawl ended and the
\* records it held then.
CrawlSettles ==
    /\ output.pc = "crawl"
    /\ pc = "done"
    /\ LET crawled ==
               Append(output.crawled,
                      [value |-> returned, failure |-> failure,
                       gathered |-> products])
       IN  IF outcome = "raised"
           THEN /\ output' = [output EXCEPT
                                 !.pc = MainCatch(input.scraper).pc,
                                 !.log = @ \cup MainCatch(input.scraper).log,
                                 !.exitCode = MainCatch(input.scraper).exitCode]
                /\ UNCHANGED crawlVars
           ELSE IF Len(crawled) < Len(SheetNames(input.scraper))
           THEN /\ output' = [output EXCEPT !.crawled = crawled]
                /\ CallCrawl(CrawlerOf(input.scraper))
           ELSE IF NoProductsFound(crawled)
           THEN /\ output' = [output EXCEPT !.crawled = crawled,
                                            !.log = @ \cup {"noProducts"},
                                            !.pc = "done"]
                /\ UNCHANGED crawlVars
           ELSE /\ output' = [output EXCEPT !.crawled = crawled,
                                            !.log = @ \cup {"creatingExcel"},
                                            !.pc = "writeFile"]
                /\ UNCHANGED crawlVars
    /\ UNCHANGED <<input, fetchResponse, fetchResult>>

\* await workbook.xlsx.writeFile(filename) settles.  Resolved: the file
\* exists, saveToExcel returns and main logs the summary; the Tractor House
\* and used-equipment mains then delete their debug files.  Rejected:
\* saveToExcel rejects and main's catch block runs.
WriteFileSettles(resolved) ==
    /\ output.pc = "writeFile"
    /\ output' =
           IF resolved
           THEN [output EXCEPT
                    !.files = Append(@, Workbook(input.scraper, output.crawled)),
                    !.log = @ \cup {"saved", "complete"},
                    !.pc = IF input.scraper = "all-equipment"
                           THEN "done" ELSE "unlink"]
           ELSE [output EXCEPT
                    !.pc = MainCatch(input.scraper).pc,
                    !.log = @ \cup MainCatch(input.scraper).log,
                    !.exitCode = MainCatch(input.scraper).exitCode]
    /\ UNCHANGED <<input, crawlVars, fetchResponse, fetchResult>>

\* try { await fs.unlink(...) } catch (err) { }: whether or not the debug
\* files could be deleted, main ends.
UnlinkSettles(resolved) ==
    /\ output.pc = "unlink"
    /\ output' = [output EXCEPT
                     !.log = IF resolved THEN @ \cup {"cleanedUp"} ELSE @,
                     !.pc = "done"]
    /\ UNCHANGED <<input, crawlVars, fetchResponse, fetchResult>>

NextRun ==
    \/ Next
    \/ CrawlSettles
    \/ \E resolved \in BOOLEAN : WriteFileSettles(resolved)
    \/ \E resolved \in BOOLEAN : UnlinkSettles(resolved)

SpecRun == InitRun /\ [][NextRun]_vars

(***************************************************************************)
(* Properties of a run                                                     *)
(***************************************************************************)
\* main has ended: it returned, or its catch block ran.
RunEnded == output.fn = "main" /\ output.pc = "done"

\* The crawls of the run returned at least one record between them.
Produced ==
    \E k \in 1..Len(output.crawled) : output.crawled[k].value # <<>>

\* The run reported 'No products found' and no spreadsheet exists.
ReportedNoProducts ==
    /\ "noProducts" \in output.log
    /\ output.files = <<>>

FailedWithRecords ==
    {k \in 1..Len(output.crawled) :
        /\ output.crawled[k].failure \in ListingFailures
        /\ output.crawled[k].gathered # <<>>}

\* C24: after a crawl that a failed listing request ended with records
\* gathered, main goes on: the next source is crawled, the run never reports
\* 'no products found', saveToExcel is called, and a spreadsheet written holds
\* a row for every record the crawl had gathered, in the crawl's sheet.
C24_PartialResultsSaved ==
    output.fn = "main" =>
        \A k \in FailedWithRecords :
            /\ "noProducts" \notin output.log
            /\ Len(output.crawled) < Len(SheetNames(input.scraper))
                   => output.pc = "crawl" /\ "mainError" \notin output.log
            /\ RunEnded =>
                   /\ Len(output.crawled) = Len(SheetNames(input.scraper))
                   /\ "creatingExcel" \in output.log
            /\ \A f \in 1..Len(output.files) :
                   /\ output.files[f][k].name = SheetNames(input.scraper)[k]
                   /\ output.files[f][k].rows =
                          RowsOf(SheetNames(input.scraper)[k],
                                 output.crawled[k].gathered)

\* C24 witness: the combined scraper's first crawl timed out on a listing
\* request after a full page, the second crawl returned records too, and the
\* spreadsheet has been written.
C24_Witness_SavedAfterListingTimeout ==
    /\ RunEnded
    /\ input.scraper = "all-equipment"
    /\ Len(output.crawled) = 2
    /\ output.crawled[1].failure = "timeout"
    /\ Len(output.crawled[1].gathered) >= productsPerPage
    /\ output.crawled[2].value # <<>>
    /\ Len(output.files) = 1
    /\ Len(output.files[1][1].rows) >= productsPerPage

(***************************************************************************)
(* Properties of the crawl, continued                                      *)
(***************************************************************************)
\* The items of the page being enriched whose detail fetch settles in this
\* step: the callback assigns location and hours of its product.
AssignedInStep ==
    {k \in DOMAIN detailLog :
        /\ pagesSeen' = pagesSeen
        /\ detailLog[k] = "pending"
        /\ detailLog'[k] # "pending"}

\* C25: in a new/used equipment crawl, location and hours of a page product
\* are assigned by its own detail fetch settling and never again, each
\* assignment pushes that one product onto products, nothing else changes
\* products, and a crawl that ends without a listing failure returns
\* exactly one record for every tile of every page that arrived, each with
\* its fields assigned.
C25_OneRecordPerTileEnrichedOnce ==
    [][ IsEquipmentCrawl =>
          /\ \A k \in DOMAIN detailLog :
                 (pagesSeen' = pagesSeen /\ detailLog[k] # "pending") =>
                     /\ detailLog'[k] = detailLog[k]
                     /\ pageProducts'[k] = pageProducts[k]
          /\ \A k \in DOMAIN detailLog :
                 (pagesSeen' = pagesSeen /\ k \notin AssignedInStep) =>
                     pageProducts'[k] = pageProducts[k]
          /\ IF AssignedInStep = {}
             THEN products' = products
             ELSE \E k \in AssignedInStep :
                      /\ AssignedInStep = {k}
                      /\ products' = Append(products, pageProducts'[k])
                      /\ pageProducts'[k].page = pageNum
                      /\ pageProducts'[k].idx = k
          /\ (pc' = "done" /\ failure' \notin ListingFailures) =>
                 /\ outcome' = "returned"
                 /\ returned' = products'
                 /\ HoldsEachTileOnce(returned')
                 /\ \A k \in DOMAIN detailLog' : detailLog'[k] # "pending"
                 /\ inflight' = {} ]_vars

\* C25 witness: a crawl of more than one page, in which detail fetches
\* settled in another order than their tiles', has ended without a failure.
C25_Witness_TwoPagesOutOfOrder ==
    /\ IsEquipmentCrawl
    /\ pc = "done"
    /\ failure = "none"
    /\ Len(pagesSeen) = 2
    /\ Len(returned) > productsPerPage
    /\ \E k \in 1..productsPerPage : returned[k].idx # k

\* The detail requests issued in this step.
IssuedInStep == {r \in inflight' \ inflight : r.kind = "detail"}

EndOfResults ==
    /\ pagesSeen # <<>>
    /\ pagesSeen[Len(pagesSeen)].count = 0

\* C30: the step in which a listing page arrives without a tile issues no
\* request, leaves products as they were and ends the crawl (Tractor House:
\* goes to close the browser); from then on no request is in flight, no
\* further listing page is requested, the crawl is never in a delay, and the
\* value returned is products as they were before the page.
C30_ZeroTilesEndsCrawl ==
    [][   /\ (EndOfResults' /\ pagesSeen' # pagesSeen) =>
               /\ products' = products
               /\ listingRequests' = listingRequests
               /\ DetailsInFlight' = {}
               /\ IsEquipmentCrawl =>
                      /\ pc' = "done"
                      /\ outcome' = "returned"
                      /\ returned' = products
          /\ EndOfResults' =>
               /\ pc' \in {"closing", "done"}
               /\ inflight' = {}
               /\ listingRequests' = Len(pagesSeen')
               /\ ~hasMorePages'
               /\ \A k \in 1..Len(products') :
                      products'[k].page < pagesSeen'[Len(pagesSeen')].page
               /\ pc' = "done" =>
                      /\ outcome' = "returned"
                      /\ returned' = products'
          /\ EndOfResults =>
               /\ products' = products
               /\ pagesSeen' = pagesSeen ]_vars

\* C30 witness: a crawl whose second listing page had no tile has returned
\* the records of its first page.
C30_Witness_EmptySecondPage ==
    /\ pc = "done"
    /\ EndOfResults
    /\ Len(pagesSeen) = 2
    /\ Len(returned) >= productsPerPage

(***************************************************************************)
(* The analyzers' choice of the Excel file(s) to read: findLatestExcelFile *)
(* of the heat-map analyzer, findExcelFiles and the selection in main of   *)
(* the reconciliation analyzer (src/unnamed/part_000).  A behaviour of     *)
(* SpecFiles is one such choice in one directory.                          *)
(***************************************************************************)
\* The modification times of the model's files are 1..MaxMtime.
MaxMtime == 2

\* "akrs-all-equipment-1.xlsx"
FileAllEquipmentOld ==
    <<"a", "k", "r", "s", "-", "a", "l", "l", "-", "e", "q", "u", "i",
    "p", "m", "e", "n", "t", "-", "1", ".", "x", "l", "s", "x">>

\* "akrs-all-equipment-2.xlsx"
FileAllEquipmentNew ==
    <<"a", "k", "r", "s", "-", "a", "l", "l", "-", "e", "q", "u", "i",
    "p", "m", "e", "n", "t", "-", "2", ".", "x", "l", "s", "x">>

\* "akrs-tractor-house-1.xlsx"
FileTractorHouse ==
    <<"a", "k", "r", "s", "-", "t", "r", "a", "c", "t", "o", "r", "-",
    "h", "o", "u", "s", "e", "-", "1", ".", "x", "l", "s", "x">>

\* "akrs-used-equipment-1.xlsx"
FileUsedEquipment ==
    <<"a", "k", "r", "s", "-", "u", "s", "e", "d", "-", "e", "q", "u",
    "i", "p", "m", "e", "n", "t", "-", "1", ".", "x", "l", "s", "x">>

\* "akrs-location-heatmap.html"
FileHeatMap ==
    <<"a", "k", "r", "s", "-", "l", "o", "c", "a", "t", "i", "o", "n",
    "-", "h", "e", "a", "t", "m", "a", "p", ".", "h", "t", "m", "l">>

\* "debug-all-equipment.xlsx"
FileDebug ==
    <<"d", "e", "b", "u", "g", "-", "a", "l", "l", "-", "e", "q", "u",
    "i", "p", "m", "e", "n", "t", ".", "x", "l", "s", "x">>

\* The names fs.readdir('.') may return, in the order it returns them.
FileNames ==
    <<FileAllEquipmentOld, FileAllEquipmentNew, FileTractorHouse,
      FileUsedEquipment, FileHeatMap, FileDebug>>

\* f.startsWith(part)
startsWith(s, part) ==
    Len(part) <= Len(s) /\ SubSeq(s, 1, Len(part)) = part

\* f.endsWith(part)
endsWith(s, part) ==
    /\ Len(part) <= Len(s)
    /\ SubSeq(s, Len(s) - Len(part) + 1, Len(s)) = part

\* f.startsWith('akrs-') && f.endsWith('.xlsx')
IsExcelFile(name) ==
    /\ startsWith(name, <<"a", "k", "r", "s", "-">>)
    /\ endsWith(name, <<".", "x", "l", "s", "x">>)

\* f.name.includes('all-equipment')
IsEquipmentFile(f) ==
    includes(f.name, <<"a", "l", "l", "-", "e", "q", "u", "i", "p", "m", "e",
                       "n", "t">>)

\* f.name.includes('tractor-house')
IsTractorHouseFile(f) ==
    includes(f.name, <<"t", "r", "a", "c", "t", "o", "r", "-", "h", "o", "u",
                       "s", "e">>)

\* Array.prototype.sort is stable: f goes behind the files at least as new.
RECURSIVE InsertByMtime(_, _)
InsertByMtime(sorted, f) ==
    IF sorted = <<>> THEN <<f>>
    ELSE IF Head(sorted).mtime >= f.mtime
    THEN <<Head(sorted)>> \o InsertByMtime(Tail(sorted), f)
    ELSE <<f>> \o sorted

\* fileStats.sort((a, b) => b.mtime - a.mtime)
RECURSIVE SortByMtime(_)
SortByMtime(files) ==
    IF files = <<>> THEN <<>>
    ELSE InsertByMtime(SortByMtime(SubSeq(files, 1, Len(files) - 1)),
                       files[Len(files)])

\* excelFiles with their modification times, newest first.
fileStats(files) ==
    SortByMtime(SelectSeq(files, LAMBDA f : IsExcelFile(f.name)))

NamesOf(files) == [k \in 1..Len(files) |-> files[k].name]

\* findLatestExcelFile and main of the heat-map analyzer: the files read.
findLatestExcelFile(files) ==
    IF fileStats(files) = <<>>
    THEN [outcome |-> "threw", filesToAnalyze |-> <<>>]
    ELSE [outcome |-> "returned",
          filesToAnalyze |-> <<fileStats(files)[1].name>>]

\* findExcelFiles of the reconciliation analyzer.  (Called only where
\* fileStats is not empty.)
findExcelFiles(files) ==
    [all |-> NamesOf(fileStats(files)),
     latest |-> fileStats(files)[1].name,
     equipment |-> NamesOf(SelectSeq(fileStats(files), IsEquipmentFile)),
     tractorHouse |-> NamesOf(SelectSeq(fileStats(files), IsTractorHouseFile))]

\* main of the reconciliation analyzer: filesToAnalyze.
filesToAnalyze(found) ==
    LET equipment == IF Len(found.equipment) > 0
                     THEN <<found.equipment[1]>> ELSE <<>>
        tractorHouse == IF Len(found.tractorHouse) > 0
                        THEN <<found.tractorHouse[1]>> ELSE <<>>
    IN  IF equipment \o tractorHouse = <<>>
        THEN <<found.latest>>
        ELSE equipment \o tractorHouse

\* The directories of the model: any of FileNames, each file with a
\* modification time, in the order of FileNames.
RECURSIVE Directories(_)
Directories(n) ==
    IF n = 0 THEN {<<>>}
    ELSE LET shorter == Directories(n - 1)
         IN  shorter \cup
                 {Append(d, [name |-> FileNames[n], mtime |-> t]) :
                      d \in shorter, t \in 1..MaxMtime}

InitFiles ==
    /\ NoCrawl("files")
    /\ input \in {[fn |-> "main", variant |-> v, files |-> d] :
                      v \in Variants, d \in Directories(Len(FileNames))}
    /\ output = NoOutput

\* main of the heat-map analyzer up to its call of analyzeExcelData.
FindLatestExcelFile ==
    /\ pc = "files"
    /\ input.variant = "heatmap"
    /\ output = NoOutput
    /\ output' = [fn |-> "main",
                  outcome |-> findLatestExcelFile(input.files).outcome,
                  filesToAnalyze |->
                      findLatestExcelFile(input.files).filesToAnalyze]
    /\ UNCHANGED <<crawlVars, fetchResponse, fetchResult, input>>

\* main of the reconciliation analyzer up to its call of analyzeExcelData.
FindExcelFiles ==
    /\ pc = "files"
    /\ input.variant = "reconciliation"
    /\ output = NoOutput
    /\ output' =
           IF fileStats(input.files) = <<>>
           THEN [fn |-> "main", outcome |-> "threw", filesToAnalyze |-> <<>>]
           ELSE [fn |-> "main", outcome |-> "returned",
                 filesToAnalyze |->
                     filesToAnalyze(findExcelFiles(input.files))]
    /\ UNCHANGED <<crawlVars, fetchResponse, fetchResult, input>>

NextFiles == FindLatestExcelFile \/ FindExcelFiles

SpecFiles == InitFiles /\ [][NextFiles]_vars

\* The files of the directory named akrs-*.xlsx.
ExcelFiles ==
    {k \in 1..Len(input.files) : IsExcelFile(input.files[k].name)}

\* name is a file named akrs-*.xlsx than which none is more recent.
IsMostRecent(name) ==
    \E k \in ExcelFiles :
        /\ input.files[k].name = name
        /\ \A m \in ExcelFiles : input.files[m].mtime <= input.files[k].mtime

\* C28, as claimed: in both analyzer variants, whatever files the directory
\* holds, the analyzer reads one file, the most recent of those named
\* akrs-*.xlsx (and fails if there is none).
C28_AnalysesMostRecentFile ==
    output.fn = "main" =>
        IF ExcelFiles = {}
        THEN output.outcome = "threw"
        ELSE /\ output.outcome = "returned"
             /\ Len(output.filesToAnalyze) = 1
             /\ IsMostRecent(output.filesToAnalyze[1])

(***************************************************************************)
(* Termination.  Every action of NextRun is the continuation that runs     *)
(* when a request settles (succeeds, fails or times out), a timer fires or *)
(* an awaited call returns, so under the assumption that every issued      *)
(* request eventually settles an enabled step is eventually taken.         *)
(***************************************************************************)
SpecRunLive == SpecRun /\ WF_vars(NextRun)

\* C27: no crawl ever raises; every crawl that was called eventually
\* returns, whatever listing and detail requests fail and also when every
\* listing page is full; and main eventually ends, by a return or by its
\* own catch block.
C27_RunTerminates ==
    /\ [](outcome # "raised")
    /\ (outcome = "running") ~> (outcome = "returned" /\ pc = "done")
    /\ <>RunEnded

\* C27 witness: a run of the combined scraper has ended whose first crawl
\* got full pages up to the ceiling and whose second crawl, with a failed
\* detail fetch, was ended by a listing request that timed out.
C27_Witness_EndedAfterCeilingAndFailures ==
    /\ RunEnded
    /\ input.scraper = "all-equipment"
    /\ Len(output.crawled) = 2
    /\ output.crawled[1].failure = "none"
    /\ Len(output.crawled[1].value) = maxPages * productsPerPage
    /\ output.crawled[2].failure = "timeout"
    /\ output.crawled[2].value # <<>>
    /\ faults > 0

(***************************************************************************)
(* Properties of the delays                                                *)
(***************************************************************************)
CeilDiv(n, b) == (n + b - 1) \div b

\* C31: processBatch starts its delay only in the step in which a window
\* has fully settled and items are left, nothing is in flight during the
\* delay, the delay ends by starting the next window, and processBatch
\* returns from a settled window without a delay; the windows start at
\* i = 0, b, 2b, ..., so that for n items ceil(n/b) windows have run when it
\* returns and ceil(n/b) - 1 delays lie between them.
C31_DelayOnlyBetweenWindows ==
    [][ IsEquipmentCrawl =>
          /\ (pc' = "batchDelay" /\ pc # "batchDelay") =>
                 /\ pc = "window"
                 /\ DetailsInFlight = {}
                 /\ i' = i
                 /\ i + BATCH_SIZE < Len(pageProducts)
          /\ pc' = "batchDelay" => inflight' = {}
          /\ (pc = "batchDelay" /\ pc' # "batchDelay") =>
                 /\ pc' = "window"
                 /\ i' = i + BATCH_SIZE
                 /\ i' < Len(pageProducts')
                 /\ DetailsInFlight' # {}
          /\ (pc' = "window" /\ pc # "window") =>
                 /\ pc \in {"listing", "batchDelay"}
                 /\ pc = "listing" => i' = 0
                 /\ i' % BATCH_SIZE = 0
          /\ (pc' = "afterBatch" /\ pc # "afterBatch") =>
                 /\ pc = "window"
                 /\ DetailsInFlight = {}
                 /\ i + BATCH_SIZE >= Len(pageProducts)
                 /\ i' = BATCH_SIZE * CeilDiv(Len(pageProducts'), BATCH_SIZE)
                 /\ Len(results') = Len(pageProducts') ]_vars

\* C31 witness: processBatch has returned for a page that took two windows
\* and so one delay.
C31_Witness_TwoWindowsOneDelay ==
    /\ pc = "afterBatch"
    /\ CeilDiv(Len(pageProducts), BATCH_SIZE) = 2
    /\ i = 2 * BATCH_SIZE

\* The last listing page that arrived ends the crawl: it had no tile, or
\* fewer tiles than a full page (Tractor House: fewer than the threshold).
LastPageArrived ==
    /\ pagesSeen # <<>>
    /\ LET count == pagesSeen[Len(pagesSeen)].count
       IN  \/ count = 0
           \/ IsEquipmentCrawl /\ count < productsPerPage
           \/ IsTractorHouse(crawler) /\ count < minFullPage

\* C32, the part on a page that ends the crawl: after such a page, and
\* whenever hasMorePages has been cleared, the crawl is not in the delay
\* between pages.
NoDelayAfterLastPage ==
    (LastPageArrived' \/ ~hasMorePages') => pc' # "pageDelay"

\* C32, the part on the requests: a listing page is requested from the loop
\* test only; the loop test is reached with a page still to request either
\* at the start of the crawl, before any request, or from the delay between
\* pages; and that delay starts in a step after which no request is in
\* flight, every detail fetch of the page having settled.
DelayBeforeEveryLaterPage ==
    /\ listingRequests' # listingRequests =>
           /\ pc = "loop"
           /\ listingRequests' = listingRequests + 1
           /\ listingRequests >= 1 => pagesSeen # <<>>
    /\ (pc' = "loop" /\ pc # "loop" /\ hasMorePages' /\ listingRequests' >= 1)
           => pc = "pageDelay"
    /\ (pc' = "pageDelay" /\ pc # "pageDelay") =>
           /\ inflight = {} \/ pc = "listing"
           /\ inflight' = {}
           /\ IsEquipmentCrawl =>
                  /\ pc = "afterBatch"
                  /\ \A k \in DOMAIN detailLog : detailLog[k] # "pending"
           /\ pageNum' = pageNum + 1
    /\ pc = "pageDelay" => (pc' = "loop" /\ inflight' = {})

\* C32: every listing-page request but the first of a crawl is preceded by
\* the delay between pages, which starts only after the detail fetches of
\* the previous page have all settled, and a page that ends the crawl (no
\* tile, or a short page) is not followed by that delay.
C32_DelayBetweenPagesOnly ==
    [][DelayBeforeEveryLaterPage /\ NoDelayAfterLastPage]_vars

\* C32 witness: a crawl has requested its second listing page, after a
\* first page that did not end it.
C32_Witness_SecondPageAfterDelay ==
    /\ pc = "listing"
    /\ listingRequests = 2
    /\ Len(pagesSeen) = 1
    /\ pagesSeen[1].count >= minFullPage

(***************************************************************************)
(* Properties of the matcher, continued                                    *)
(***************************************************************************)
\* C33, as claimed: the duplicate count of detectDuplicates is at most the
\* size of setA and at most the size of setB, so uniqueUsed,
\* uniqueTractorHouse and totalUnique are not negative and the overlap is
\* at most 100 per cent, also when several records of setB share their key
\* with one record of setA.
C33_DuplicatesWithinBothSets ==
    output.fn = "detectDuplicates" =>
        /\ output.info.duplicates <= Len(SetA)
        /\ output.info.duplicates <= Len(SetB)
        /\ output.info.uniqueUsed >= 0
        /\ output.info.uniqueTractorHouse >= 0
        /\ output.info.totalUnique >= 0
        /\ output.info.overlapPercent.tenths <= 1000

\* records is in listing order: by page, and within a page by tile.
InListingOrder(records) ==
    \A k1, k2 \in 1..Len(records) :
        k1 < k2 =>
            \/ records[k1].page < records[k2].page
            \/ /\ records[k1].page = records[k2].page
               /\ records[k1].idx < records[k2].idx

\* C34, as claimed: the records a crawl returns are in listing order, the
\* records of page N before those of page N+1 and those of a page in tile
\* order, whatever the order in which the detail fetches completed.
C34_ReturnedInListingOrder ==
    pc = "done" => InListingOrder(returned)

(***************************************************************************)
(* Properties of the Tractor House crawl                                   *)
(***************************************************************************)
\* C35: in the Tractor House crawl the browser changes state twice at most,
\* from not launched to open and from open to closed; the close is the step
\* in which scrapeInventoryListings returns; it is open for as long as the
\* crawl runs after a launch; and on every exit path the function returns
\* the listings it holds, one for every kept card of the pages read, with the
\* browser closed, or never launched when puppeteer.launch itself failed.
C35_BrowserClosedOnce ==
    [][ IsTractorHouse(crawler) =>
          /\ browser' # browser =>
                 \/ /\ browser = "null"
                    /\ browser' = "open"
                    /\ pc = "launch"
                 \/ /\ browser = "open"
                    /\ browser' = "closed"
                    /\ pc = "closing"
                    /\ pc' = "done"
          /\ pc' \notin {"launch", "done"} => browser' = "open"
          /\ pc' = "done" =>
                 /\ outcome' = "returned"
                 /\ returned' = products'
                 /\ HoldsEachTileOnce(returned')
                 /\ browser' = IF failure' = "launch" THEN "null" ELSE "closed"
                 /\ inflight' = {}
          /\ \A k \in 1..Len(products) :
                 k <= Len(products') /\ products'[k] = products[k] ]_vars

\* C35 witness: a navigation failed after a page of listings was read; the
\* browser is closed and the listings of that page have been returned.
C35_Witness_ClosedAfterNavigationError ==
    /\ IsTractorHouse(crawler)
    /\ pc = "done"
    /\ failure \in {"network", "timeout"}
    /\ browser = "closed"
    /\ returned # <<>>


(***************************************************************************)
(* Conservation of counts in the aggregator                                *)
(***************************************************************************)
RECURSIVE SumOfTotals(_, _)
\* The sum of the totals of the locations in names.
SumOfTotals(stats, names) ==
    IF names = {} THEN 0
    ELSE LET l == CHOOSE n \in names : TRUE
         IN  stats[l].total + SumOfTotals(stats, names \ {l})

\* The location the variant attributes to the row, Null if none.
AttributedLocation(variant, row) ==
    IF row.rowNumber = 1 THEN Null
    ELSE IF variant = "heatmap" THEN locationOfRow(row)
    ELSE locationOfRowReconciled(row)

\* C36: a row raises the total of at most one location, by one, and only
\* the location it was attributed; the header row and a row without location
\* raise nothing; and after every row the totals of all locations sum up to
\* totalProducts, which counts the rows that were attributed a location.
C36_AggregationConservesCounts ==
    [][ Aggregated' =>
          LET before == output.locationStats
              after == output'.locationStats
              raised == {l \in DOMAIN after :
                             TotalOf(after, l) # TotalOf(before, l)}
              location == AttributedLocation(input'.variant, input'.row)
          IN  /\ DOMAIN before \subseteq DOMAIN after
              /\ Cardinality(raised) <= 1
              /\ \A l \in raised :
                     /\ l = location
                     /\ TotalOf(after, l) = TotalOf(before, l) + 1
              /\ input'.row.rowNumber = 1 => output' = output
              /\ location = Null => output' = output
              /\ location # Null => raised = {location}
              /\ output'.totalProducts =
                     output.totalProducts + Cardinality(raised)
              /\ SumOfTotals(after, DOMAIN after) = output'.totalProducts
      ]_vars

\* Two data rows were counted under two different locations.
C36_Witness_TwoRowsTwoLocations ==
    /\ Aggregated
    /\ input.rowsRead = 2
    /\ output.totalProducts = 2
    /\ Cardinality(DOMAIN output.locationStats) = 2
    /\ SumOfTotals(output.locationStats, DOMAIN output.locationStats) = 2


\* C37: the location a row is counted under is the value of its Location
\* column: a row is counted under no other name, and a row whose Location
\* column is empty is not counted, whatever its other columns hold.
C37_LocationColumnAlone ==
    [][ Aggregated' =>
          LET before == output.locationStats
              after == output'.locationStats
              row == input'.row
          IN  /\ \A l \in DOMAIN after :
                     TotalOf(after, l) # TotalOf(before, l)
                         => l = LocationColumn(row)
              /\ LocationColumn(row) = <<>> => output' = output ]_vars


(***************************************************************************)
(* Symmetry of the duplicate count                                         *)
(***************************************************************************)
\* No two records of the list share a match key.
KeysDistinct(items) ==
    \A j, k \in 1..Len(items) :
        createMatchKey(items[j]) = createMatchKey(items[k]) => j = k

\* The lists that hold the records of items in some order.
Reorderings(items) ==
    {[k \in 1..Len(items) |-> items[p[k]]] :
         p \in Permutations(1..Len(items))}

\* C38: when the keys within setA are distinct and the keys within setB are
\* distinct, detectDuplicates(setA, setB) and detectDuplicates(setB, setA)
\* count the same number of duplicates; and in every case the count is the
\* same for every order of the records within setA and within setB.
C38_DuplicateCountSymmetric ==
    output.fn = "detectDuplicates" =>
        /\ (KeysDistinct(SetA) /\ KeysDistinct(SetB))
               => output.info.duplicates =
                      detectDuplicates(SetB, SetA).duplicates
        /\ \A a \in Reorderings(SetA), b \in Reorderings(SetB) :
               detectDuplicates(a, b).duplicates = output.info.duplicates

\* Two records on each side with distinct keys, the second of setA matching
\* the first of setB.
C38_Witness_OneMatchOutOfPlace ==
    /\ output.fn = "detectDuplicates"
    /\ Len(SetA) = 2
    /\ Len(SetB) = 2
    /\ KeysDistinct(SetA)
    /\ KeysDistinct(SetB)
    /\ createMatchKey(SetA[2]) = createMatchKey(SetB[1])
    /\ createMatchKey(SetA[2]) # AllEmptyKey
    /\ output.info.duplicates = 1

====
